---- MODULE Spec2Model ----
(***************************************************************************)
(* Model of the McMocknald order kiosk core: the two-tier priority queue   *)
(* (pkg/queue/priority_queue.go), the in-memory order and user stores      *)
(* (internal/infrastructure/memory) and the cook service                   *)
(* (internal/service/cook_service.go) with the order service's CreateOrder.*)
(*                                                                         *)
(* Orders are identified by their ID; a queue slot holds an order ID, as   *)
(* the Go slices hold pointers to the one domain.Order of the store.       *)
(***************************************************************************)
EXTENDS Integers, Sequences, FiniteSets, Bags, TLC

\* ---------------------------------------------------------------- bounds
MaxQOrders == 3      \* orders available to the queue-only specification
MaxOps == 5          \* successful queue mutations in the queue-only specification
MaxOrders == 2       \* orders CreateOrder may create in the service specification
MaxAccepts == 2      \* AcceptOrder calls that pass the cook checks
MaxRemoves == 2      \* RemoveCook calls that pass the cook checks
NumCooks == 2        \* cooks registered
NumAccSlots == 2     \* AcceptOrder calls that may be in progress at once
NumRemSlots == 2     \* RemoveCook calls that may be in progress at once
MaxPoolOrders == 1   \* orders CreateOrder may create in the worker pool specification
MaxFoods == 2        \* foods on sale, and the longest food list passed to CreateOrder
MaxLoops == NumAccSlots  \* polling goroutines ever started (goroutine i calls in slot i)
MaxPreload == 3      \* orders in the queue at the start of the accept-only specification
MaxExtraCalls == 1   \* AcceptOrder calls beyond the preloaded orders in that specification

\* ------------------------------------------------------- program constants
Nil == 0             \* the nil pointer / absent optional

RoleRegularCustomer == "Regular Customer"
RoleVIPCustomer == "VIP Customer"
RoleCook == "Cook"

OrderStatusPending == "PENDING"
OrderStatusServing == "SERVING"
OrderStatusComplete == "COMPLETE"

ErrNone == "nil"
ErrNilOrder == "ErrNilOrder"
ErrEmptyQueue == "ErrEmptyQueue"

\* ---------------------------------------------------------------- state
VARIABLES
    vipOrders,       \* PriorityQueue.vipOrders: sequence of order IDs
    regularOrders,   \* PriorityQueue.regularOrders
    size,            \* PriorityQueue.size (cached count)
    orders,          \* the orders that exist: ID -> [Status, AssignedCookUser, CustomerRole]
    nextID,          \* OrderRepository.nextID
    \* observation of the last queue call (queue-only specification)
    op,              \* name of the last queue operation called
    arg,             \* its argument (an order ID or Nil)
    ret,             \* the order it returned (Nil if none)
    err,             \* the error it returned
    preVip,          \* vipOrders before the last call
    preReg,          \* regularOrders before the last call
    preSize,         \* size before the last call
    nEnq,            \* number of successful Enqueue and EnqueueAtFront calls
    nDeq,            \* number of successful Dequeue calls
    enqTime,         \* order ID -> logical time of its last insertion (0: never)
    enqHow,          \* order ID -> operation of its last insertion
    frontTimes,      \* logical times at which an EnqueueAtFront succeeded
    \* the services
    users,           \* UserRepository.users: ID -> [Role, Deleted]
    acc,             \* the AcceptOrder calls in progress: slot -> [pc, cookID, order]
    rem,             \* the RemoveCook calls in progress: slot -> [pc, cookID, orders]
    timers,          \* the processOrder goroutines waiting: bag of [orderID, cookID]
    nAccept,         \* number of AcceptOrder calls that passed the cook checks
    nRemove,         \* number of RemoveCook calls that passed the cook checks
    bound,           \* the orders successful AcceptOrder calls returned: bag of order IDs
    held,            \* the orders the cook held in SERVING when the observed RemoveCook call began
                     \* (less those at which a store call of that RemoveCook call failed)
    \* the worker pool
    workers,         \* cookService.workers: cook ID -> [loop, isRunning] (loop = Nil: no entry)
    loops,           \* the polling goroutines ever started: [cookID, stopped, pc]
    poolStop,        \* cookService.stopChan is closed
    stopPc,          \* the StopWorkerPool call: "idle", "wait" (in wg.Wait) or "done"
    wg,              \* cookService.wg: the WaitGroup counter
    ctxDone,         \* the context given to StartWorkerPool is cancelled
    starting,        \* the StartWorkerPool call in progress: the cooks still to start
    log,             \* the last call that returned an error: [call, id, err]
    \* the mutexes
    workersMu,       \* cookService.workersMu: the call that holds it
    mu               \* PriorityQueue.mu: the call that holds it

queueVars == <<vipOrders, regularOrders, size>>
storeVars == <<orders, nextID>>
obsVars == <<op, arg, ret, err, preVip, preReg, preSize, nEnq, nDeq, enqTime, enqHow, frontTimes>>
poolVars == <<workers, loops, poolStop, stopPc, wg, ctxDone, starting>>
lockVars == <<workersMu, mu>>
svcVars == <<users, acc, rem, timers, nAccept, nRemove, bound, held, poolVars, log, lockVars>>
vars == <<queueVars, storeVars, obsVars, svcVars>>

\* ------------------------------------------------------------- helpers
Range(s) == {s[i] : i \in 1..Len(s)}

\* order.CustomerRole == domain.RoleVIPCustomer, for the role read from the order
IsVIPRole(role) == role = RoleVIPCustomer

\* the tier an order that exists belongs to, by its CustomerRole field
IsVIPOrder(o) == IsVIPRole(orders[o].CustomerRole)

\* (mutant) Enqueue inserting at the head
SliceAppend_AtHead(s, o) == <<o>> \o s

\* append(slice, order)
SliceAppend(s, o) == Append(s, o)

\* (mutant) EnqueueAtFront inserting at the tail
SlicePrepend_AtTail(s, o) == Append(s, o)

\* append([]*domain.Order{order}, slice...)
SlicePrepend(s, o) == <<o>> \o s

\* (mutant) Dequeue leaving the head in place
SliceRest_KeepsHead(s) == s

\* slice[1:]
SliceRest(s) == Tail(s)

\* ------------------------------------------------- PriorityQueue methods
\* The effect of each method on the queue, as an action on queueVars alone.
\* Each method holds pq.mu for its whole body, so each is one atomic step.
\* o is the order (its ID), role the CustomerRole field the method reads from it.

QEnqueue(o, role) ==
    /\ o # Nil
    /\ IF IsVIPRole(role)
          THEN /\ vipOrders' = SliceAppend(vipOrders, o)
               /\ regularOrders' = regularOrders
          ELSE /\ regularOrders' = SliceAppend(regularOrders, o)
               /\ vipOrders' = vipOrders
    /\ size' = size + 1

\* (mutant) EnqueueAtFront forgetting pq.size++
QEnqueueAtFront_NoCount(o, role) ==
    /\ o # Nil
    /\ IF IsVIPRole(role)
          THEN /\ vipOrders' = SlicePrepend(vipOrders, o)
               /\ regularOrders' = regularOrders
          ELSE /\ regularOrders' = SlicePrepend(regularOrders, o)
               /\ vipOrders' = vipOrders
    /\ size' = size

\* (mutant) EnqueueAtFront putting every order in front of the regular orders
QEnqueueAtFront_RegularOnly(o, role) ==
    /\ o # Nil
    /\ regularOrders' = SlicePrepend(regularOrders, o)
    /\ vipOrders' = vipOrders
    /\ size' = size + 1

QEnqueueAtFront(o, role) ==
    /\ o # Nil
    /\ IF IsVIPRole(role)
          THEN /\ vipOrders' = SlicePrepend(vipOrders, o)
               /\ regularOrders' = regularOrders
          ELSE /\ regularOrders' = SlicePrepend(regularOrders, o)
               /\ vipOrders' = vipOrders
    /\ size' = size + 1

\* (mutant) Dequeue looking at the regular orders first
DequeueOrder_RegularFirst ==
    IF Len(regularOrders) > 0 THEN regularOrders[1]
    ELSE IF Len(vipOrders) > 0 THEN vipOrders[1]
    ELSE Nil

\* The order Dequeue hands out when size # 0 (Nil when both slices are empty).
DequeueOrder ==
    IF Len(vipOrders) > 0 THEN vipOrders[1]
    ELSE IF Len(regularOrders) > 0 THEN regularOrders[1]
    ELSE Nil

\* (mutant) Dequeue forgetting pq.size--
QDequeue_NoCount ==
    /\ size # 0
    /\ IF Len(vipOrders) > 0
          THEN /\ vipOrders' = SliceRest(vipOrders)
               /\ regularOrders' = regularOrders
          ELSE IF Len(regularOrders) > 0
          THEN /\ regularOrders' = SliceRest(regularOrders)
               /\ vipOrders' = vipOrders
          ELSE UNCHANGED <<vipOrders, regularOrders>>
    /\ size' = size

QDequeue ==
    /\ size # 0
    /\ IF Len(vipOrders) > 0
          THEN /\ vipOrders' = SliceRest(vipOrders)
               /\ regularOrders' = regularOrders
          ELSE IF Len(regularOrders) > 0
          THEN /\ regularOrders' = SliceRest(regularOrders)
               /\ vipOrders' = vipOrders
          ELSE UNCHANGED <<vipOrders, regularOrders>>
    /\ size' = size - 1

\* (mutant) Peek looking at the VIP orders only
PeekResult_VipOnly ==
    IF Len(vipOrders) > 0 THEN <<vipOrders[1], ErrNone>> ELSE <<Nil, ErrEmptyQueue>>

\* Peek's result: <<order, error>>
PeekResult ==
    IF size = 0 THEN <<Nil, ErrEmptyQueue>>
    ELSE IF Len(vipOrders) > 0 THEN <<vipOrders[1], ErrNone>>
    ELSE IF Len(regularOrders) > 0 THEN <<regularOrders[1], ErrNone>>
    ELSE <<Nil, ErrEmptyQueue>>

\* Size()
Size == size

\* ------------------------------------------------------------ the stores
\* The users of the model: two customers, one of each role, and the cooks.
RegularCustomerID == Nil + 1
VIPCustomerID == Nil + 2
CookIDs == 3..(2 + NumCooks)
UserIDs == 1..(2 + NumCooks)
UnknownID == 3 + NumCooks       \* an ID no user has

InitUsers ==
    [u \in UserIDs |->
        [Role |-> IF u = RegularCustomerID THEN RoleRegularCustomer
                  ELSE IF u = VIPCustomerID THEN RoleVIPCustomer
                  ELSE RoleCook,
         Deleted |-> FALSE]]

\* the slots for calls in progress
AccSlots == 1..NumAccSlots
RemSlots == 1..NumRemSlots
IdleCall == [pc |-> "idle"]

\* A new call takes the first free slot (which slot runs a call makes no difference).
FirstIdle(calls, k) == calls[k].pc = "idle" /\ \A j \in 1..(k - 1) : calls[j].pc # "idle"

\* no entry for the cook in cookService.workers
NoWorker == [loop |-> Nil, isRunning |-> FALSE]

\* NewCookService: an empty worker registry, an open stop channel, no goroutine
PoolIdle ==
    /\ workers = [c \in CookIDs |-> NoWorker]
    /\ loops = <<>>
    /\ poolStop = FALSE
    /\ stopPc = "idle"
    /\ wg = 0
    /\ ctxDone = FALSE
    /\ starting = <<>>

\* a mutex that no call holds
NoHolder == [unit |-> "none", slot |-> 0]

\* both mutexes are free
LocksFree ==
    /\ workersMu = NoHolder
    /\ mu = NoHolder

\* no call has returned an error yet
NoLog == [call |-> "none", id |-> Nil, err |-> ErrNone]

\* User.IsDeleted()
IsDeleted(id) == users[id].Deleted

\* User.IsCook()
IsCook(id) == users[id].Role = RoleCook

\* the error of the first two checks AcceptOrder, RemoveCook and ReinstateCook
\* make on the cook ID (ErrNone when both pass)
CookLookupError(id) ==
    IF ~(id \in DOMAIN users) THEN "cook not found"
    ELSE IF ~IsCook(id) THEN "user is not a cook"
    ELSE ErrNone

\* ===================================================================
\* Queue-only specification: any sequence of calls on one PriorityQueue.
\* The calls are atomic (pq.mu), so concurrent callers are interleavings.
\* ===================================================================
QOrderIDs == 1..MaxQOrders

InQueue(o) == o \in Range(vipOrders) \cup Range(regularOrders)

Clock == nEnq + nDeq

\* What a caller sees of one call: its name, argument, result, and the queue before it.
Observe(name, a, r, e) ==
    /\ op' = name
    /\ arg' = a
    /\ ret' = r
    /\ err' = e
    /\ preVip' = vipOrders
    /\ preReg' = regularOrders
    /\ preSize' = size

\* NewPriorityQueue(); the orders of the tests exist beforehand, each with a role.
InitQ ==
    /\ vipOrders = <<>>
    /\ regularOrders = <<>>
    /\ size = 0
    /\ nextID = MaxQOrders + 1
    /\ orders \in [QOrderIDs -> [Status : {OrderStatusPending},
                                 AssignedCookUser : {Nil},
                                 CustomerRole : {RoleRegularCustomer, RoleVIPCustomer}]]
    /\ op = "NewPriorityQueue"
    /\ arg = Nil
    /\ ret = Nil
    /\ err = ErrNone
    /\ preVip = <<>>
    /\ preReg = <<>>
    /\ preSize = 0
    /\ nEnq = 0
    /\ nDeq = 0
    /\ enqTime = [o \in QOrderIDs |-> 0]
    /\ enqHow = [o \in QOrderIDs |-> "none"]
    /\ frontTimes = {}
    /\ users = InitUsers
    /\ acc = [k \in AccSlots |-> IdleCall]
    /\ rem = [k \in RemSlots |-> IdleCall]
    /\ timers = EmptyBag
    /\ nAccept = 0
    /\ nRemove = 0
    /\ bound = EmptyBag
    /\ held = {}
    /\ PoolIdle
    /\ LocksFree
    /\ log = NoLog

\* (mutant) Enqueue counting the order before it looks at it
Enqueue_CountsNil(o) ==
    /\ IF o = Nil
          THEN /\ Observe("Enqueue", o, Nil, ErrNilOrder)
               /\ size' = size + 1
               /\ UNCHANGED <<vipOrders, regularOrders, nEnq, enqTime, enqHow>>
          ELSE /\ ~InQueue(o)
               /\ Clock < MaxOps
               /\ QEnqueue(o, orders[o].CustomerRole)
               /\ Observe("Enqueue", o, Nil, ErrNone)
               /\ nEnq' = nEnq + 1
               /\ enqTime' = [enqTime EXCEPT ![o] = Clock + 1]
               /\ enqHow' = [enqHow EXCEPT ![o] = "Enqueue"]
    /\ UNCHANGED <<storeVars, svcVars, nDeq, frontTimes>>

\* pq.Enqueue(order)
Enqueue(o) ==
    /\ IF o = Nil
          THEN /\ Observe("Enqueue", o, Nil, ErrNilOrder)
               /\ UNCHANGED <<queueVars, nEnq, enqTime, enqHow>>
          ELSE /\ ~InQueue(o)
               /\ Clock < MaxOps
               /\ QEnqueue(o, orders[o].CustomerRole)
               /\ Observe("Enqueue", o, Nil, ErrNone)
               /\ nEnq' = nEnq + 1
               /\ enqTime' = [enqTime EXCEPT ![o] = Clock + 1]
               /\ enqHow' = [enqHow EXCEPT ![o] = "Enqueue"]
    /\ UNCHANGED <<storeVars, svcVars, nDeq, frontTimes>>

\* pq.EnqueueAtFront(order)
EnqueueAtFront(o) ==
    /\ IF o = Nil
          THEN /\ Observe("EnqueueAtFront", o, Nil, ErrNilOrder)
               /\ UNCHANGED <<queueVars, nEnq, enqTime, enqHow, frontTimes>>
          ELSE /\ ~InQueue(o)
               /\ Clock < MaxOps
               /\ QEnqueueAtFront(o, orders[o].CustomerRole)
               /\ Observe("EnqueueAtFront", o, Nil, ErrNone)
               /\ nEnq' = nEnq + 1
               /\ enqTime' = [enqTime EXCEPT ![o] = Clock + 1]
               /\ enqHow' = [enqHow EXCEPT ![o] = "EnqueueAtFront"]
               /\ frontTimes' = frontTimes \cup {Clock + 1}
    /\ UNCHANGED <<storeVars, svcVars, nDeq>>

\* pq.Dequeue()
Dequeue ==
    /\ IF size = 0
          THEN /\ Observe("Dequeue", Nil, Nil, ErrEmptyQueue)
               /\ UNCHANGED <<queueVars, nDeq>>
          ELSE /\ Clock < MaxOps
               /\ Observe("Dequeue", Nil, DequeueOrder, ErrNone)
               /\ QDequeue
               /\ nDeq' = nDeq + 1
    /\ UNCHANGED <<storeVars, svcVars, nEnq, enqTime, enqHow, frontTimes>>

\* (mutant) Peek removing the order it returns
Peek_Pops ==
    /\ Observe("Peek", Nil, PeekResult[1], PeekResult[2])
    /\ IF size = 0 THEN UNCHANGED queueVars ELSE QDequeue
    /\ UNCHANGED <<storeVars, svcVars, nEnq, nDeq, enqTime, enqHow, frontTimes>>

\* pq.Peek()
Peek ==
    /\ Observe("Peek", Nil, PeekResult[1], PeekResult[2])
    /\ UNCHANGED <<queueVars, storeVars, svcVars, nEnq, nDeq, enqTime, enqHow, frontTimes>>

NextQ ==
    \/ \E o \in QOrderIDs \cup {Nil} : Enqueue(o)
    \/ \E o \in QOrderIDs \cup {Nil} : EnqueueAtFront(o)
    \/ Dequeue
    \/ Peek

SpecQ == InitQ /\ [][NextQ]_vars

\* ===================================================================
\* The services: orderService.CreateOrder and cookService over the
\* in-memory stores.  A call is a sequence of steps, one per store or queue
\* call (each atomic under that store's or the queue's mutex); calls in
\* progress interleave between steps.
\* ===================================================================
OrderIDs == DOMAIN orders

NewOrder(role) ==
    [Status |-> OrderStatusPending, AssignedCookUser |-> Nil, CustomerRole |-> role]

\* userRepo.GetByID(id) succeeds
UserExists(id) == id \in DOMAIN users

\* (mutant) UpdateStatus not storing the status
UpdateStatus_Forgets(os, o, status) == os

\* OrderRepository.UpdateStatus(orderID, status)
UpdateStatus(os, o, status) == [os EXCEPT ![o].Status = status]

\* (mutant) AssignCook not storing the cook
AssignCook_Forgets(os, o, c) == os

\* OrderRepository.AssignCook(orderID, cookID)
AssignCook(os, o, c) == [os EXCEPT ![o].AssignedCookUser = c]

\* OrderRepository.UnassignCook(orderID)
UnassignCook(os, o) == [os EXCEPT ![o].AssignedCookUser = Nil]

\* OrderRepository.GetByCookID(cookID): the orders assigned to the cook
GetByCookID(c) == {o \in OrderIDs : orders[o].AssignedCookUser = c}

\* the orders a cook holds in SERVING
ServedBy(c) == {o \in GetByCookID(c) : orders[o].Status = OrderStatusServing}

\* the orderings a range over the store's map may produce for a set of orders
Orderings(S) ==
    {q \in [1..Cardinality(S) -> S] : \A i, j \in 1..Cardinality(S) : q[i] = q[j] => i = j}

\* RemoveCook's filter on an order of the cook
NeedsRequeue(o) ==
    orders[o].Status = OrderStatusPending \/ orders[o].Status = OrderStatusServing

Init ==
    /\ vipOrders = <<>>
    /\ regularOrders = <<>>
    /\ size = 0
    /\ orders = <<>>
    /\ nextID = 1
    /\ op = "NewPriorityQueue"
    /\ arg = Nil
    /\ ret = Nil
    /\ err = ErrNone
    /\ preVip = <<>>
    /\ preReg = <<>>
    /\ preSize = 0
    /\ nEnq = 0
    /\ nDeq = 0
    /\ enqTime = <<>>
    /\ enqHow = <<>>
    /\ frontTimes = {}
    /\ users = InitUsers
    /\ acc = [k \in AccSlots |-> IdleCall]
    /\ rem = [k \in RemSlots |-> IdleCall]
    /\ timers = EmptyBag
    /\ nAccept = 0
    /\ nRemove = 0
    /\ bound = EmptyBag
    /\ held = {}
    /\ PoolIdle
    /\ LocksFree
    /\ log = NoLog

\* User.IsCustomer()
IsCustomer(id) == users[id].Role \in {RoleRegularCustomer, RoleVIPCustomer}

\* (mutant) a CreateOrder that does not check that the user is a customer
CustomerCheckError_AllowsCooks(customerID) ==
    IF ~UserExists(customerID) THEN "customer not found"
    ELSE IF IsDeleted(customerID) THEN "customer is deleted"
    ELSE ErrNone

\* CreateOrder, lines 65-81: the error of the checks on the customer (ErrNone when they pass)
CustomerCheckError(customerID) ==
    IF ~UserExists(customerID) THEN "customer not found"
    ELSE IF IsDeleted(customerID) THEN "customer is deleted"
    ELSE IF ~IsCustomer(customerID) THEN "user is not a customer"
    ELSE ErrNone

\* the food store: foods 1..MaxFoods exist and are on sale, the next one
\* exists and is deleted, and no food has the ID after that
FoodStore == [f \in 1..(MaxFoods + 1) |-> [Deleted |-> f = MaxFoods + 1]]
FoodArgIDs == 1..(MaxFoods + 2)

\* the food lists a caller may pass: up to MaxFoods IDs
FoodLists == UNION {[1..n -> FoodArgIDs] : n \in 0..MaxFoods}

\* the first position of the list whose food is missing or deleted (Nil if none)
FirstBadFood(list) ==
    LET bad == {i \in 1..Len(list) :
                   list[i] \notin DOMAIN FoodStore \/ FoodStore[list[i]].Deleted}
    IN  IF bad = {} THEN Nil ELSE CHOOSE i \in bad : \A j \in bad : i <= j

\* orderService.validateFoodIDs(foodIDs): the error it returns (ErrNone when valid)
ValidateFoodIDs(list) ==
    IF Len(list) = 0 THEN "order must contain at least one food item"
    ELSE IF \E i, j \in 1..Len(list) : i < j /\ list[i] = list[j]
       THEN "duplicate food ID in order"
    ELSE IF FirstBadFood(list) = Nil THEN ErrNone
    ELSE IF list[FirstBadFood(list)] \notin DOMAIN FoodStore THEN "food item not found"
    ELSE "food item is no longer available"

\* orderService.CreateOrder(customerID, foodIDs): the order is created in the
\* store and enqueued; nothing else can reach the order in between.
CreateOrderCall(customerID, foodsValid) ==
    /\ IF CustomerCheckError(customerID) = ErrNone /\ foodsValid
          THEN /\ nextID <= MaxOrders
               /\ orders' = Append(orders, NewOrder(users[customerID].Role))
               /\ nextID' = nextID + 1
               /\ QEnqueue(nextID, users[customerID].Role)
          ELSE UNCHANGED <<queueVars, storeVars>>
    /\ UNCHANGED <<obsVars, users, acc, rem, timers, nAccept, nRemove, bound, held, poolVars>>

CreateOrder(customerID, foodsValid) ==
    /\ CreateOrderCall(customerID, foodsValid)
    /\ UNCHANGED <<log, lockVars>>

\* an AcceptOrder that does not look at the cook's deleted flag
AcceptCheckError_IgnoresDeleted(cookID) == CookLookupError(cookID)

\* the error AcceptOrder's checks on the cook return (ErrNone when they pass)
AcceptCheckError(cookID) ==
    IF CookLookupError(cookID) # ErrNone THEN CookLookupError(cookID)
    ELSE IF IsDeleted(cookID) THEN "cook is deleted"
    ELSE ErrNone

\* AcceptOrder, lines 231-242: the cook checks, made by the call in slot k
AcceptOrderEnter(k, cookID) ==
    /\ acc[k].pc = "idle"
    /\ acc' = IF AcceptCheckError(cookID) = ErrNone
                 THEN [acc EXCEPT ![k] = [pc |-> "dequeue", cookID |-> cookID]]
                 ELSE acc
    /\ UNCHANGED <<queueVars, storeVars, obsVars, users, rem, timers, nRemove, bound, held>>

\* the same, counting the calls that pass the checks, at most maxCalls of them
AcceptOrderChecks(k, cookID, maxCalls) ==
    /\ AcceptOrderEnter(k, cookID)
    /\ IF AcceptCheckError(cookID) = ErrNone
          THEN /\ nAccept < maxCalls
               /\ nAccept' = nAccept + 1
          ELSE UNCHANGED nAccept

\* a caller's AcceptOrder call begins
AcceptOrderBegin(k, cookID, maxCalls) ==
    /\ FirstIdle(acc, k)
    /\ AcceptOrderChecks(k, cookID, maxCalls)
    /\ UNCHANGED <<poolVars, log, lockVars>>

\* AcceptOrder, lines 245-251: Dequeue
AcceptOrderTake(k) ==
    /\ acc[k].pc = "dequeue"
    /\ IF size = 0
          THEN /\ acc' = [acc EXCEPT ![k] = IdleCall]
               /\ UNCHANGED queueVars
          ELSE /\ acc' = [acc EXCEPT ![k] =
                            [pc |-> "assign", cookID |-> acc[k].cookID, order |-> DequeueOrder]]
               /\ QDequeue
    /\ UNCHANGED <<storeVars, obsVars, users, rem, timers, nAccept, nRemove, bound, held, poolVars>>

AcceptOrderDequeue(k) ==
    /\ AcceptOrderTake(k)
    /\ UNCHANGED <<log, lockVars>>

\* AcceptOrder, lines 254-258: AssignCook (the in-memory store finds the order)
AcceptOrderAssign(k) ==
    /\ acc[k].pc = "assign"
    /\ orders' = AssignCook(orders, acc[k].order, acc[k].cookID)
    /\ acc' = [acc EXCEPT ![k].pc = "status"]
    /\ UNCHANGED <<queueVars, nextID, obsVars, users, rem, timers, nAccept, nRemove, bound, held, poolVars, log, lockVars>>

\* AcceptOrder, lines 261-271: UpdateStatus(SERVING), go processOrder, return
AcceptOrderServe(k) ==
    /\ acc[k].pc = "status"
    /\ orders' = UpdateStatus(orders, acc[k].order, OrderStatusServing)
    /\ timers' = timers (+) SetToBag({[orderID |-> acc[k].order, cookID |-> acc[k].cookID]})
    /\ bound' = bound (+) SetToBag({acc[k].order})
    /\ acc' = [acc EXCEPT ![k] = IdleCall]
    /\ UNCHANGED <<queueVars, nextID, obsVars, users, rem, nAccept, nRemove, held, poolVars, log, lockVars>>

\* processOrder: the serving duration has elapsed, lines 279-293
ProcessOrderComplete(t) ==
    /\ BagIn(t, timers)
    /\ orders' = UpdateStatus(orders, t.orderID, OrderStatusComplete)
    /\ timers' = timers (-) SetToBag({t})
    /\ UNCHANGED <<queueVars, nextID, obsVars, users, acc, rem, nAccept, nRemove, bound, held, poolVars, log, lockVars>>

\* processOrder: the context of the call is cancelled first, lines 281-284
ProcessOrderCancelled(t) ==
    /\ BagIn(t, timers)
    /\ timers' = timers (-) SetToBag({t})
    /\ UNCHANGED <<queueVars, storeVars, obsVars, users, acc, rem, nAccept, nRemove, bound, held, poolVars, log, lockVars>>

\* stopWorker(cookID), lines 370-379: close the stop channel of the cook's worker
stopWorker(cookID) ==
    IF workers[cookID].loop # Nil /\ workers[cookID].isRunning
       THEN /\ loops' = [loops EXCEPT ![workers[cookID].loop].stopped = TRUE]
            /\ workers' = [workers EXCEPT ![cookID].isRunning = FALSE]
       ELSE UNCHANGED <<workers, loops>>

\* a RemoveCook that does not look at the cook's deleted flag
RemoveCheckError_IgnoresDeleted(cookID) == CookLookupError(cookID)

\* the error RemoveCook's checks on the cook return (ErrNone when they pass)
RemoveCheckError(cookID) ==
    IF CookLookupError(cookID) # ErrNone THEN CookLookupError(cookID)
    ELSE IF IsDeleted(cookID) THEN "cook is already deleted"
    ELSE ErrNone

\* RemoveCook, lines 108-125: the cook checks and stopWorker
RemoveCookChecks(k, cookID) ==
    /\ FirstIdle(rem, k)
    /\ IF RemoveCheckError(cookID) = ErrNone
          THEN /\ nRemove < MaxRemoves
               /\ rem' = [rem EXCEPT ![k] = [pc |-> "list", cookID |-> cookID]]
               /\ nRemove' = nRemove + 1
               /\ stopWorker(cookID)
          ELSE UNCHANGED <<rem, nRemove, workers, loops>>
    /\ UNCHANGED <<queueVars, storeVars, obsVars, users, acc, timers, nAccept, bound>>
    /\ UNCHANGED <<poolStop, stopPc, wg, ctxDone, starting>>

RemoveCookBegin(k, cookID) ==
    /\ RemoveCookChecks(k, cookID)
    /\ UNCHANGED <<held, log, lockVars>>

\* RemoveCook, lines 128-132: GetByCookID
RemoveCookList(k) ==
    /\ rem[k].pc = "list"
    /\ \E q \in Orderings(GetByCookID(rem[k].cookID)) :
          rem' = [rem EXCEPT ![k] = [pc |-> "loop", cookID |-> rem[k].cookID, orders |-> q]]
    /\ UNCHANGED <<queueVars, storeVars, obsVars, users, acc, timers, nAccept, nRemove, bound, held, poolVars, log, lockVars>>

\* RemoveCook, lines 135-136 and 160-166: the next order of the range and the
\* status filter on it; after the last order, SoftDelete and return
RemoveCookLoop(k) ==
    /\ rem[k].pc = "loop"
    /\ IF rem[k].orders = <<>>
          THEN /\ users' = [users EXCEPT ![rem[k].cookID].Deleted = TRUE]
               /\ rem' = [rem EXCEPT ![k] = IdleCall]
          ELSE /\ rem' = IF NeedsRequeue(Head(rem[k].orders))
                            THEN [rem EXCEPT ![k].pc = "setPending"]
                            ELSE [rem EXCEPT ![k].orders = Tail(rem[k].orders)]
               /\ users' = users
    /\ UNCHANGED <<queueVars, storeVars, obsVars, acc, timers, nAccept, nRemove, bound, held, poolVars, log, lockVars>>

\* RemoveCook, lines 138-141: UpdateStatus(PENDING)
RemoveCookSetPending(k) ==
    /\ rem[k].pc = "setPending"
    /\ orders' = UpdateStatus(orders, Head(rem[k].orders), OrderStatusPending)
    /\ rem' = [rem EXCEPT ![k].pc = "unassign"]
    /\ UNCHANGED <<queueVars, nextID, obsVars, users, acc, timers, nAccept, nRemove, bound, held, poolVars, log, lockVars>>

\* RemoveCook, lines 144-147: UnassignCook
RemoveCookUnassign(k) ==
    /\ rem[k].pc = "unassign"
    /\ orders' = UnassignCook(orders, Head(rem[k].orders))
    /\ rem' = [rem EXCEPT ![k].pc = "enqueue"]
    /\ UNCHANGED <<queueVars, nextID, obsVars, users, acc, timers, nAccept, nRemove, bound, held, poolVars, log, lockVars>>

\* RemoveCook, lines 150-155: EnqueueAtFront
RemoveCookPush(k) ==
    /\ rem[k].pc = "enqueue"
    /\ QEnqueueAtFront(Head(rem[k].orders), orders[Head(rem[k].orders)].CustomerRole)
    /\ rem' = [rem EXCEPT ![k].pc = "loop", ![k].orders = Tail(rem[k].orders)]
    /\ UNCHANGED <<storeVars, obsVars, users, acc, timers, nAccept, nRemove, bound, held, poolVars>>

RemoveCookEnqueue(k) ==
    /\ RemoveCookPush(k)
    /\ UNCHANGED <<log, lockVars>>

\* the error ReinstateCook's checks on the cook return (ErrNone when they pass)
ReinstateCheckError(cookID) ==
    IF CookLookupError(cookID) # ErrNone THEN CookLookupError(cookID)
    ELSE IF ~IsDeleted(cookID) THEN "cook is not deleted"
    ELSE ErrNone

\* a ReinstateCook that clears the deleted flag of every cook
ReinstateCookCall_AllCooks(cookID) ==
    /\ IF ReinstateCheckError(cookID) = ErrNone
          THEN users' = [u \in DOMAIN users |-> [users[u] EXCEPT !.Deleted = FALSE]]
          ELSE users' = users
    /\ UNCHANGED <<queueVars, storeVars, obsVars, acc, rem, timers, nAccept, nRemove, bound, held, poolVars>>

\* ReinstateCook, lines 171-197
ReinstateCookCall(cookID) ==
    /\ IF ReinstateCheckError(cookID) = ErrNone
          THEN users' = [users EXCEPT ![cookID].Deleted = FALSE]
          ELSE users' = users
    /\ UNCHANGED <<queueVars, storeVars, obsVars, acc, rem, timers, nAccept, nRemove, bound, held, poolVars>>

ReinstateCook(cookID) ==
    /\ ReinstateCookCall(cookID)
    /\ UNCHANGED <<log, lockVars>>

Next ==
    \/ \E c \in UserIDs \cup {UnknownID}, f \in BOOLEAN : CreateOrder(c, f)
    \/ \E k \in AccSlots, c \in UserIDs \cup {UnknownID} : AcceptOrderBegin(k, c, MaxAccepts)
    \/ \E k \in AccSlots : AcceptOrderDequeue(k)
    \/ \E k \in AccSlots : AcceptOrderAssign(k)
    \/ \E k \in AccSlots : AcceptOrderServe(k)
    \/ \E t \in BagToSet(timers) : ProcessOrderComplete(t)
    \/ \E t \in BagToSet(timers) : ProcessOrderCancelled(t)
    \/ \E k \in RemSlots, c \in UserIDs \cup {UnknownID} : RemoveCookBegin(k, c)
    \/ \E k \in RemSlots : RemoveCookList(k)
    \/ \E k \in RemSlots : RemoveCookLoop(k)
    \/ \E k \in RemSlots : RemoveCookSetPending(k)
    \/ \E k \in RemSlots : RemoveCookUnassign(k)
    \/ \E k \in RemSlots : RemoveCookEnqueue(k)
    \/ \E c \in UserIDs \cup {UnknownID} : ReinstateCook(c)

Spec == Init /\ [][Next]_vars

\* ===================================================================
\* RemoveCook running alone: the service with every RemoveCook call started
\* when no other call is in progress and run to its end without another
\* step in between.  Its behaviours are behaviours of Spec.
\* ===================================================================
NoAcceptInProgress == \A k \in AccSlots : acc[k].pc = "idle"
NoRemoveInProgress == \A k \in RemSlots : rem[k].pc = "idle"

\* RemoveCook begins alone; the orders its cook holds in SERVING are noted
RemoveCookBeginAlone(k, cookID) ==
    /\ NoAcceptInProgress
    /\ NoRemoveInProgress
    /\ RemoveCookChecks(k, cookID)
    /\ held' = IF rem'[k].pc = "idle" THEN held ELSE ServedBy(cookID)
    /\ UNCHANGED <<log, lockVars>>

NextSolo ==
    \/ NoRemoveInProgress /\ \E c \in UserIDs \cup {UnknownID}, f \in BOOLEAN : CreateOrder(c, f)
    \/ NoRemoveInProgress /\ \E k \in AccSlots, c \in UserIDs \cup {UnknownID} :
                                  AcceptOrderBegin(k, c, MaxAccepts)
    \/ NoRemoveInProgress /\ \E k \in AccSlots : AcceptOrderDequeue(k)
    \/ NoRemoveInProgress /\ \E k \in AccSlots : AcceptOrderAssign(k)
    \/ NoRemoveInProgress /\ \E k \in AccSlots : AcceptOrderServe(k)
    \/ NoRemoveInProgress /\ \E t \in BagToSet(timers) : ProcessOrderComplete(t)
    \/ NoRemoveInProgress /\ \E t \in BagToSet(timers) : ProcessOrderCancelled(t)
    \/ NoRemoveInProgress /\ \E c \in UserIDs \cup {UnknownID} : ReinstateCook(c)
    \/ \E k \in RemSlots, c \in UserIDs \cup {UnknownID} : RemoveCookBeginAlone(k, c)
    \/ \E k \in RemSlots : RemoveCookList(k)
    \/ \E k \in RemSlots : RemoveCookLoop(k)
    \/ \E k \in RemSlots : RemoveCookSetPending(k)
    \/ \E k \in RemSlots : RemoveCookUnassign(k)
    \/ \E k \in RemSlots : RemoveCookEnqueue(k)

SpecSolo == Init /\ [][NextSolo]_vars

\* ===================================================================
\* Accept only: cooks call AcceptOrder concurrently against a queue that
\* CreateOrder has loaded with MaxPreload orders.
\* ===================================================================
PreloadIDs == 1..MaxPreload

\* the IDs 1..n, in increasing order, of the orders of os in the tier asked for
RECURSIVE IDsInOrder(_, _, _)
IDsInOrder(os, n, vip) ==
    IF n = 0 THEN <<>>
    ELSE IF IsVIPRole(os[n].CustomerRole) = vip
            THEN Append(IDsInOrder(os, n - 1, vip), n)
            ELSE IDsInOrder(os, n - 1, vip)

InitAccept ==
    /\ orders \in [PreloadIDs -> [Status : {OrderStatusPending},
                                  AssignedCookUser : {Nil},
                                  CustomerRole : {RoleRegularCustomer, RoleVIPCustomer}]]
    /\ nextID = MaxPreload + 1
    /\ vipOrders = IDsInOrder(orders, MaxPreload, TRUE)
    /\ regularOrders = IDsInOrder(orders, MaxPreload, FALSE)
    /\ size = MaxPreload
    /\ op = "NewPriorityQueue"
    /\ arg = Nil
    /\ ret = Nil
    /\ err = ErrNone
    /\ preVip = <<>>
    /\ preReg = <<>>
    /\ preSize = 0
    /\ nEnq = 0
    /\ nDeq = 0
    /\ enqTime = <<>>
    /\ enqHow = <<>>
    /\ frontTimes = {}
    /\ users = InitUsers
    /\ acc = [k \in AccSlots |-> IdleCall]
    /\ rem = [k \in RemSlots |-> IdleCall]
    /\ timers = EmptyBag
    /\ nAccept = 0
    /\ nRemove = 0
    /\ bound = EmptyBag
    /\ held = {}
    /\ PoolIdle
    /\ LocksFree
    /\ log = NoLog

NextAccept ==
    \/ \E k \in AccSlots, c \in UserIDs \cup {UnknownID} :
          AcceptOrderBegin(k, c, MaxPreload + MaxExtraCalls)
    \/ \E k \in AccSlots : AcceptOrderDequeue(k)
    \/ \E k \in AccSlots : AcceptOrderAssign(k)
    \/ \E k \in AccSlots : AcceptOrderServe(k)
    \/ \E t \in BagToSet(timers) : ProcessOrderComplete(t)
    \/ \E t \in BagToSet(timers) : ProcessOrderCancelled(t)

SpecAccept == InitAccept /\ [][NextAccept]_vars

\* ===================================================================
\* AcceptOrder over a store whose writes may fail: the order repository is
\* the database one, whose AssignCook and UpdateStatus return an error when
\* the statement fails (the row is then unchanged).
\* ===================================================================

\* AcceptOrder, lines 254-258: AssignCook fails; EnqueueAtFront, return the error
AcceptOrderAssignFails(k) ==
    /\ acc[k].pc = "assign"
    /\ QEnqueueAtFront(acc[k].order, orders[acc[k].order].CustomerRole)
    /\ acc' = [acc EXCEPT ![k] = IdleCall]
    /\ log' = [call |-> "AcceptOrder", id |-> acc[k].cookID, err |-> "failed to assign cook"]
    /\ UNCHANGED <<storeVars, obsVars, users, rem, timers, nAccept, nRemove, bound, held, poolVars>>
    /\ UNCHANGED lockVars

\* AcceptOrder, lines 261-263: UpdateStatus(SERVING) fails; return the error
AcceptOrderServeFails(k) ==
    /\ acc[k].pc = "status"
    /\ acc' = [acc EXCEPT ![k] = IdleCall]
    /\ log' = [call |-> "AcceptOrder", id |-> acc[k].cookID,
               err |-> "failed to update order status"]
    /\ UNCHANGED <<queueVars, storeVars, obsVars, users, rem, timers, nAccept, nRemove, bound,
                   held, poolVars>>
    /\ UNCHANGED lockVars

NextFail ==
    \/ \E c \in UserIDs \cup {UnknownID}, f \in BOOLEAN : CreateOrder(c, f)
    \/ \E k \in AccSlots, c \in UserIDs \cup {UnknownID} : AcceptOrderBegin(k, c, MaxAccepts)
    \/ \E k \in AccSlots : AcceptOrderDequeue(k)
    \/ \E k \in AccSlots : AcceptOrderAssign(k)
    \/ \E k \in AccSlots : AcceptOrderAssignFails(k)
    \/ \E k \in AccSlots : AcceptOrderServe(k)
    \/ \E k \in AccSlots : AcceptOrderServeFails(k)
    \/ \E t \in BagToSet(timers) : ProcessOrderComplete(t)
    \/ \E t \in BagToSet(timers) : ProcessOrderCancelled(t)

SpecFail == Init /\ [][NextFail]_vars

\* ===================================================================
\* The worker pool: StartWorkerPool starts one polling goroutine per active
\* cook; each goroutine calls AcceptOrder on its ticks (the call of goroutine
\* i runs in slot i) until it takes one of the stop cases of its select;
\* RemoveCook stops the cook's worker; StopWorkerPool closes the pool's stop
\* channel and waits for the goroutines.
\* ===================================================================
LoopIDs == 1..Len(loops)

\* a polling goroutine is alive until it has returned
Alive(i) == loops[i].pc # "exited"

\* StartWorkerPool, lines 302-305: GetAllCooks(ctx, false), in the order of a map range
StartWorkerPoolList ==
    /\ starting = <<>>
    /\ \E q \in Orderings({c \in CookIDs : ~IsDeleted(c)}) : starting' = q
    /\ UNCHANGED <<queueVars, storeVars, obsVars, users, acc, rem, timers, nAccept, nRemove,
                   bound, held>>
    /\ UNCHANGED <<workers, loops, poolStop, stopPc, wg, ctxDone>>

StartWorkerPoolBegin ==
    /\ StartWorkerPoolList
    /\ UNCHANGED <<log, lockVars>>

\* startWorker(ctx, cookID), lines 318-367: refuse a cook whose worker is
\* running; else register a new worker, wg.Add(1) and start its goroutine
startWorker(cookID) ==
    IF workers[cookID].loop # Nil /\ workers[cookID].isRunning
       THEN UNCHANGED <<workers, loops, wg>>
       ELSE /\ Len(loops) < MaxLoops
            /\ loops' = Append(loops, [cookID |-> cookID, stopped |-> FALSE, pc |-> "select"])
            /\ workers' = [workers EXCEPT ![cookID] = [loop |-> Len(loops) + 1,
                                                       isRunning |-> TRUE]]
            /\ wg' = wg + 1

\* StartWorkerPool, lines 308-312: startWorker for the next cook of the list
StartWorkerPoolStart ==
    /\ starting # <<>>
    /\ startWorker(Head(starting))
    /\ starting' = Tail(starting)
    /\ UNCHANGED <<queueVars, storeVars, obsVars, users, acc, rem, timers, nAccept, nRemove,
                   bound, held>>
    /\ UNCHANGED <<poolStop, stopPc, ctxDone>>

StartWorkerPoolStep ==
    /\ StartWorkerPoolStart
    /\ UNCHANGED <<log, lockVars>>

\* the goroutine of startWorker, lines 355-361: the ticker case, AcceptOrder
LoopTick(i) ==
    /\ loops[i].pc = "select"
    /\ AcceptOrderChecks(i, loops[i].cookID, MaxAccepts)
    /\ UNCHANGED <<poolVars, log, lockVars>>

\* (mutant) a goroutine whose select has no case for its worker's stop channel
StopCaseReady_NoWorkerStop(i) == ctxDone \/ poolStop

\* a goroutine whose select has no case for the pool's stop channel
StopCaseReady_NoPoolStop(i) == ctxDone \/ loops[i].stopped

\* a stop case of the goroutine's select is ready: ctx.Done(), worker.stopChan, s.stopChan
StopCaseReady(i) == ctxDone \/ loops[i].stopped \/ poolStop

\* the goroutine of startWorker, lines 346-354 and 338: a stop case, return, wg.Done()
LoopExit(i) ==
    /\ loops[i].pc = "select"
    /\ acc[i].pc = "idle"
    /\ StopCaseReady(i)
    /\ loops' = [loops EXCEPT ![i].pc = "exited"]
    /\ wg' = wg - 1
    /\ UNCHANGED <<queueVars, storeVars, obsVars, users, acc, rem, timers, nAccept, nRemove,
                   bound, held, log, lockVars>>
    /\ UNCHANGED <<workers, poolStop, stopPc, ctxDone, starting>>

\* StopWorkerPool, line 384: close(s.stopChan)
StopWorkerPoolCall ==
    /\ stopPc = "idle"
    /\ poolStop' = TRUE
    /\ stopPc' = "wait"
    /\ UNCHANGED <<queueVars, storeVars, obsVars, users, acc, rem, timers, nAccept, nRemove,
                   bound, held, log, lockVars>>
    /\ UNCHANGED <<workers, loops, wg, ctxDone, starting>>

\* a StopWorkerPool that signals and returns without waiting for the goroutines
StopWorkerPoolReturn_NoWait ==
    /\ stopPc = "wait"
    /\ stopPc' = "done"
    /\ UNCHANGED <<queueVars, storeVars, obsVars, users, acc, rem, timers, nAccept, nRemove,
                   bound, held, log, lockVars>>
    /\ UNCHANGED <<workers, loops, poolStop, wg, ctxDone, starting>>

\* StopWorkerPool, lines 385-387: s.wg.Wait() returns, the call returns
StopWorkerPoolReturn ==
    /\ stopPc = "wait"
    /\ wg = 0
    /\ stopPc' = "done"
    /\ UNCHANGED <<queueVars, storeVars, obsVars, users, acc, rem, timers, nAccept, nRemove,
                   bound, held, log, lockVars>>
    /\ UNCHANGED <<workers, loops, poolStop, wg, ctxDone, starting>>

\* the context given to StartWorkerPool is cancelled
CancelContext ==
    /\ ~ctxDone
    /\ ctxDone' = TRUE
    /\ UNCHANGED <<queueVars, storeVars, obsVars, users, acc, rem, timers, nAccept, nRemove,
                   bound, held, log, lockVars>>
    /\ UNCHANGED <<workers, loops, poolStop, stopPc, wg, starting>>

\* CreateOrder while fewer than MaxPoolOrders orders exist
PoolCreateOrder(customerID) ==
    /\ nextID <= MaxPoolOrders
    /\ CreateOrder(customerID, TRUE)

\* RemoveCook called while no other RemoveCook call is in progress
PoolRemoveCook(cookID) ==
    /\ \A j \in RemSlots : rem[j].pc = "idle"
    /\ \E k \in RemSlots : RemoveCookBegin(k, cookID)

NextPool ==
    \/ \E c \in {RegularCustomerID, VIPCustomerID} : PoolCreateOrder(c)
    \/ StartWorkerPoolBegin
    \/ StartWorkerPoolStep
    \/ \E i \in LoopIDs : LoopTick(i)
    \/ \E k \in AccSlots : AcceptOrderDequeue(k)
    \/ \E k \in AccSlots : AcceptOrderAssign(k)
    \/ \E k \in AccSlots : AcceptOrderServe(k)
    \/ \E t \in BagToSet(timers) : ProcessOrderComplete(t)
    \/ \E t \in BagToSet(timers) : ProcessOrderCancelled(t)
    \/ \E i \in LoopIDs : LoopExit(i)
    \/ \E c \in CookIDs : PoolRemoveCook(c)
    \/ \E k \in RemSlots : RemoveCookList(k)
    \/ \E k \in RemSlots : RemoveCookLoop(k)
    \/ \E k \in RemSlots : RemoveCookSetPending(k)
    \/ \E k \in RemSlots : RemoveCookUnassign(k)
    \/ \E k \in RemSlots : RemoveCookEnqueue(k)
    \/ \E c \in CookIDs : ReinstateCook(c)
    \/ StopWorkerPoolCall
    \/ StopWorkerPoolReturn

SpecPool == Init /\ [][NextPool]_vars

\* ===================================================================
\* Shutdown under fair scheduling.  The Go scheduler runs every runnable
\* goroutine eventually, and no step of AcceptOrder blocks (the queue's and
\* the store's mutexes are held for one operation): weak fairness for the
\* steps of AcceptOrder and for StopWorkerPool's return from wg.Wait.  A
\* select with several ready cases chooses one of them uniformly at random,
\* so a goroutine that comes back to its select again and again with a stop
\* case ready eventually takes it: strong fairness for LoopExit.
\* ===================================================================
NextShutdown ==
    \/ \E c \in {RegularCustomerID, VIPCustomerID} : PoolCreateOrder(c)
    \/ StartWorkerPoolBegin
    \/ StartWorkerPoolStep
    \/ \E i \in LoopIDs : LoopTick(i)
    \/ \E k \in AccSlots : AcceptOrderDequeue(k)
    \/ \E k \in AccSlots : AcceptOrderAssign(k)
    \/ \E k \in AccSlots : AcceptOrderServe(k)
    \/ \E t \in BagToSet(timers) : ProcessOrderComplete(t)
    \/ \E t \in BagToSet(timers) : ProcessOrderCancelled(t)
    \/ \E i \in LoopIDs : LoopExit(i)
    \/ StopWorkerPoolCall
    \/ StopWorkerPoolReturn
    \/ CancelContext

FairShutdown ==
    /\ \A k \in AccSlots : /\ WF_vars(AcceptOrderDequeue(k))
                            /\ WF_vars(AcceptOrderAssign(k))
                            /\ WF_vars(AcceptOrderServe(k))
    /\ \A i \in 1..MaxLoops : SF_vars(i \in LoopIDs /\ LoopExit(i))
    /\ WF_vars(StopWorkerPoolReturn)

SpecShutdown == Init /\ [][NextShutdown]_vars /\ FairShutdown

\* ===================================================================
\* The calls with their error returns: AcceptOrder, RemoveCook and
\* ReinstateCook are called directly (the HTTP handlers) with any user ID or
\* an unknown ID, and log keeps the outcome of the last precondition check.
\* ===================================================================
CallIDs == UserIDs \cup {UnknownID}

\* AcceptOrder, lines 231-242, with the error it returns
LoggedAcceptOrderBegin(k, cookID) ==
    /\ FirstIdle(acc, k)
    /\ AcceptOrderChecks(k, cookID, MaxAccepts)
    /\ log' = [call |-> "AcceptOrder", id |-> cookID, err |-> AcceptCheckError(cookID)]
    /\ UNCHANGED poolVars
    /\ UNCHANGED lockVars

\* AcceptOrder, lines 245-251, with the error it returns for an empty queue
LoggedAcceptOrderDequeue(k) ==
    /\ AcceptOrderTake(k)
    /\ log' = IF size = 0
                 THEN [call |-> "AcceptOrder", id |-> acc[k].cookID, err |-> "no orders in queue"]
                 ELSE log
    /\ UNCHANGED lockVars

\* RemoveCook, lines 108-125, with the error it returns
LoggedRemoveCookBegin(k, cookID) ==
    /\ \A j \in RemSlots : rem[j].pc = "idle"
    /\ RemoveCookChecks(k, cookID)
    /\ log' = [call |-> "RemoveCook", id |-> cookID, err |-> RemoveCheckError(cookID)]
    /\ UNCHANGED held
    /\ UNCHANGED lockVars

\* ReinstateCook, lines 173-196, with the error it returns
LoggedReinstateCook(cookID) ==
    /\ ReinstateCookCall(cookID)
    /\ log' = [call |-> "ReinstateCook", id |-> cookID, err |-> ReinstateCheckError(cookID)]
    /\ UNCHANGED lockVars

NextCalls ==
    \/ \E c \in {RegularCustomerID, VIPCustomerID} : PoolCreateOrder(c)
    \/ \E k \in AccSlots, c \in CallIDs : LoggedAcceptOrderBegin(k, c)
    \/ \E k \in AccSlots : LoggedAcceptOrderDequeue(k)
    \/ \E k \in AccSlots : AcceptOrderAssign(k)
    \/ \E k \in AccSlots : AcceptOrderServe(k)
    \/ \E t \in BagToSet(timers) : ProcessOrderComplete(t)
    \/ \E t \in BagToSet(timers) : ProcessOrderCancelled(t)
    \/ \E k \in RemSlots, c \in CallIDs : LoggedRemoveCookBegin(k, c)
    \/ \E k \in RemSlots : RemoveCookList(k)
    \/ \E k \in RemSlots : RemoveCookLoop(k)
    \/ \E k \in RemSlots : RemoveCookSetPending(k)
    \/ \E k \in RemSlots : RemoveCookUnassign(k)
    \/ \E k \in RemSlots : RemoveCookEnqueue(k)
    \/ \E c \in CallIDs : LoggedReinstateCook(c)

SpecCalls == Init /\ [][NextCalls]_vars

\* The lifecycle calls with their error returns, beside a worker pool whose
\* loops RemoveCook stops; AcceptOrder is called for the cooks.
NextLifecycle ==
    \/ \E c \in {RegularCustomerID, VIPCustomerID} : PoolCreateOrder(c)
    \/ \E k \in AccSlots, c \in CookIDs : AcceptOrderBegin(k, c, MaxPoolOrders)
    \/ \E k \in AccSlots : AcceptOrderDequeue(k)
    \/ \E k \in AccSlots : AcceptOrderAssign(k)
    \/ \E k \in AccSlots : AcceptOrderServe(k)
    \/ \E t \in BagToSet(timers) : ProcessOrderComplete(t)
    \/ \E t \in BagToSet(timers) : ProcessOrderCancelled(t)
    \/ \E k \in RemSlots, c \in CallIDs : LoggedRemoveCookBegin(k, c)
    \/ \E k \in RemSlots : RemoveCookList(k)
    \/ \E k \in RemSlots : RemoveCookLoop(k)
    \/ \E k \in RemSlots : RemoveCookSetPending(k)
    \/ \E k \in RemSlots : RemoveCookUnassign(k)
    \/ \E k \in RemSlots : RemoveCookEnqueue(k)
    \/ \E c \in CallIDs : LoggedReinstateCook(c)
    \/ StartWorkerPoolBegin
    \/ StartWorkerPoolStep
    \/ \E i \in LoopIDs : LoopExit(i)

SpecLifecycle == Init /\ [][NextLifecycle]_vars

\* ===================================================================
\* The pool under one context: the loops call AcceptOrder with the context
\* given to StartWorkerPool (line 357), and AcceptOrder hands it to
\* processOrder (line 269).  processOrder's select (lines 279-285) starts its
\* timer when it is entered and is woken by the first of its two channels to
\* become ready: it takes the timer case only if the duration elapses while
\* the context is not cancelled, and the Done case once it is cancelled.
\* ===================================================================
\* (mutant) a processOrder that waits for the timer only
SelectTakesTimer_IgnoresContext == TRUE

\* the serving duration can elapse first: the context is not cancelled
SelectTakesTimer == ~ctxDone

\* processOrder, lines 280-281 and 287-293: the timer case, UpdateStatus(COMPLETE)
CtxProcessOrderComplete(t) ==
    /\ SelectTakesTimer
    /\ ProcessOrderComplete(t)

\* processOrder, lines 282-285: the Done case, return
CtxProcessOrderCancelled(t) ==
    /\ ctxDone
    /\ ProcessOrderCancelled(t)

NextCancel ==
    \/ \E c \in {RegularCustomerID, VIPCustomerID} : PoolCreateOrder(c)
    \/ StartWorkerPoolBegin
    \/ StartWorkerPoolStep
    \/ \E i \in LoopIDs : LoopTick(i)
    \/ \E k \in AccSlots : AcceptOrderDequeue(k)
    \/ \E k \in AccSlots : AcceptOrderAssign(k)
    \/ \E k \in AccSlots : AcceptOrderServe(k)
    \/ \E t \in BagToSet(timers) : CtxProcessOrderComplete(t)
    \/ \E t \in BagToSet(timers) : CtxProcessOrderCancelled(t)
    \/ \E i \in LoopIDs : LoopExit(i)
    \/ \E c \in CookIDs : PoolRemoveCook(c)
    \/ \E k \in RemSlots : RemoveCookList(k)
    \/ \E k \in RemSlots : RemoveCookLoop(k)
    \/ \E k \in RemSlots : RemoveCookSetPending(k)
    \/ \E k \in RemSlots : RemoveCookUnassign(k)
    \/ \E k \in RemSlots : RemoveCookEnqueue(k)
    \/ CancelContext

SpecCancel == Init /\ [][NextCancel]_vars

\* ===================================================================
\* Progress: a started pool, orders created, no removal, no cancellation,
\* no shutdown.  The loops poll without a bound on the number of calls.
\* Fairness: the ticker of a loop fires every 100 ms and no stop case is
\* ever ready, so a loop at its select takes a tick; the scheduler runs the
\* steps of a call; the timer of processOrder elapses.
\* ===================================================================
\* the goroutine of startWorker, lines 355-361: the ticker case, AcceptOrder
LoopPoll(i) ==
    /\ loops[i].pc = "select"
    /\ AcceptOrderEnter(i, loops[i].cookID)
    /\ UNCHANGED <<nAccept, poolVars, log, lockVars>>

\* the processOrder goroutines a behaviour can have
TimerIDs == [orderID : 1..MaxOrders, cookID : CookIDs]

NextProgress ==
    \/ \E c \in {RegularCustomerID, VIPCustomerID} : CreateOrder(c, TRUE)
    \/ StartWorkerPoolBegin
    \/ StartWorkerPoolStep
    \/ \E i \in LoopIDs : LoopPoll(i)
    \/ \E k \in AccSlots : AcceptOrderDequeue(k)
    \/ \E k \in AccSlots : AcceptOrderAssign(k)
    \/ \E k \in AccSlots : AcceptOrderServe(k)
    \/ \E t \in BagToSet(timers) : ProcessOrderComplete(t)

FairProgress ==
    /\ \A i \in 1..MaxLoops : WF_vars(i \in LoopIDs /\ LoopPoll(i))
    /\ \A k \in AccSlots : /\ WF_vars(AcceptOrderDequeue(k))
                            /\ WF_vars(AcceptOrderAssign(k))
                            /\ WF_vars(AcceptOrderServe(k))
    /\ \A t \in TimerIDs : WF_vars(ProcessOrderComplete(t))

SpecProgress == Init /\ [][NextProgress]_vars /\ FairProgress

\* ===================================================================
\* CreateOrder with its error returns, called with any user ID and any food
\* list.  The user store starts with any of its users soft-deleted (the
\* repository's SoftDelete is open to every user; the tests delete a
\* customer with it).  The cooks take the orders by AcceptOrder.
\* ===================================================================
InitCreate ==
    /\ vipOrders = <<>>
    /\ regularOrders = <<>>
    /\ size = 0
    /\ orders = <<>>
    /\ nextID = 1
    /\ op = "NewPriorityQueue"
    /\ arg = Nil
    /\ ret = Nil
    /\ err = ErrNone
    /\ preVip = <<>>
    /\ preReg = <<>>
    /\ preSize = 0
    /\ nEnq = 0
    /\ nDeq = 0
    /\ enqTime = <<>>
    /\ enqHow = <<>>
    /\ frontTimes = {}
    /\ \E del \in SUBSET UserIDs :
          users = [u \in UserIDs |-> [InitUsers[u] EXCEPT !.Deleted = (u \in del)]]
    /\ acc = [k \in AccSlots |-> IdleCall]
    /\ rem = [k \in RemSlots |-> IdleCall]
    /\ timers = EmptyBag
    /\ nAccept = 0
    /\ nRemove = 0
    /\ bound = EmptyBag
    /\ held = {}
    /\ PoolIdle
    /\ LocksFree
    /\ log = NoLog

\* CreateOrder, lines 63-115, with the error it returns
LoggedCreateOrder(customerID, foodIDs) ==
    /\ CreateOrderCall(customerID, ValidateFoodIDs(foodIDs) = ErrNone)
    /\ log' = [call |-> "CreateOrder", id |-> customerID,
               err |-> IF CustomerCheckError(customerID) # ErrNone
                          THEN CustomerCheckError(customerID)
                          ELSE ValidateFoodIDs(foodIDs)]
    /\ UNCHANGED lockVars

NextCreate ==
    \/ \E c \in CallIDs, l \in FoodLists : LoggedCreateOrder(c, l)
    \/ \E k \in AccSlots, c \in CookIDs : AcceptOrderBegin(k, c, MaxAccepts)
    \/ \E k \in AccSlots : AcceptOrderDequeue(k)
    \/ \E k \in AccSlots : AcceptOrderAssign(k)
    \/ \E k \in AccSlots : AcceptOrderServe(k)
    \/ \E t \in BagToSet(timers) : ProcessOrderComplete(t)

SpecCreate == InitCreate /\ [][NextCreate]_vars

\* ===================================================================
\* Every way an order enters the queue: CreateOrder, the compensation of
\* AcceptOrder when AssignCook fails, and RemoveCook (one call at a time).
\* ===================================================================
NextTier ==
    \/ \E c \in {RegularCustomerID, VIPCustomerID} : CreateOrder(c, TRUE)
    \/ \E k \in AccSlots, c \in CookIDs : AcceptOrderBegin(k, c, MaxAccepts)
    \/ \E k \in AccSlots : AcceptOrderDequeue(k)
    \/ \E k \in AccSlots : AcceptOrderAssign(k)
    \/ \E k \in AccSlots : AcceptOrderAssignFails(k)
    \/ \E k \in AccSlots : AcceptOrderServe(k)
    \/ \E k \in AccSlots : AcceptOrderServeFails(k)
    \/ \E t \in BagToSet(timers) : ProcessOrderComplete(t)
    \/ \E c \in CookIDs : PoolRemoveCook(c)
    \/ \E k \in RemSlots : RemoveCookList(k)
    \/ \E k \in RemSlots : RemoveCookLoop(k)
    \/ \E k \in RemSlots : RemoveCookSetPending(k)
    \/ \E k \in RemSlots : RemoveCookUnassign(k)
    \/ \E k \in RemSlots : RemoveCookEnqueue(k)
    \/ \E c \in CookIDs : ReinstateCook(c)

SpecTier == Init /\ [][NextTier]_vars

\* ===================================================================
\* RemoveCook running alone over a store whose writes may fail: the order
\* repository is the database one, whose UpdateStatus and UnassignCook
\* return an error when the statement fails (the row is then unchanged).
\* ===================================================================

\* (mutant) a RemoveCook that returns the error of a failed UpdateStatus
RemoveCookSetPendingFails_Aborts(k) ==
    /\ rem[k].pc = "setPending"
    /\ rem' = [rem EXCEPT ![k] = IdleCall]
    /\ held' = held \ {Head(rem[k].orders)}
    /\ log' = [call |-> "RemoveCook", id |-> rem[k].cookID,
               err |-> "failed to update order status"]
    /\ UNCHANGED <<queueVars, storeVars, obsVars, users, acc, timers, nAccept, nRemove, bound,
                   poolVars>>
    /\ UNCHANGED lockVars

\* RemoveCook, lines 138-141: UpdateStatus(PENDING) fails; log, continue
\* with the next order
RemoveCookSetPendingFails(k) ==
    /\ rem[k].pc = "setPending"
    /\ rem' = [rem EXCEPT ![k].pc = "loop", ![k].orders = Tail(rem[k].orders)]
    /\ held' = held \ {Head(rem[k].orders)}
    /\ log' = [call |-> "RemoveCook", id |-> rem[k].cookID,
               err |-> "failed to update order status"]
    /\ UNCHANGED <<queueVars, storeVars, obsVars, users, acc, timers, nAccept, nRemove, bound,
                   poolVars>>
    /\ UNCHANGED lockVars

\* RemoveCook, lines 144-147: UnassignCook fails; log, continue with the next order
RemoveCookUnassignFails(k) ==
    /\ rem[k].pc = "unassign"
    /\ rem' = [rem EXCEPT ![k].pc = "loop", ![k].orders = Tail(rem[k].orders)]
    /\ held' = held \ {Head(rem[k].orders)}
    /\ log' = [call |-> "RemoveCook", id |-> rem[k].cookID,
               err |-> "failed to unassign cook from order"]
    /\ UNCHANGED <<queueVars, storeVars, obsVars, users, acc, timers, nAccept, nRemove, bound,
                   poolVars>>
    /\ UNCHANGED lockVars

NextRequeueFail ==
    \/ NextSolo
    \/ \E k \in RemSlots : RemoveCookSetPendingFails(k)
    \/ \E k \in RemSlots : RemoveCookUnassignFails(k)

SpecRequeueFail == Init /\ [][NextRequeueFail]_vars

\* ===================================================================
\* Stopping one worker under fair scheduling: a pool, one order, RemoveCook
\* (one call at a time); no StopWorkerPool and no cancellation, so the only
\* stop case a loop can take is its worker's stop channel.  Fairness as for
\* the shutdown: weak for the steps of AcceptOrder, strong for LoopExit.
\* ===================================================================
NextStop ==
    \/ \E c \in {RegularCustomerID, VIPCustomerID} : PoolCreateOrder(c)
    \/ StartWorkerPoolBegin
    \/ StartWorkerPoolStep
    \/ \E i \in LoopIDs : LoopTick(i)
    \/ \E k \in AccSlots : AcceptOrderDequeue(k)
    \/ \E k \in AccSlots : AcceptOrderAssign(k)
    \/ \E k \in AccSlots : AcceptOrderServe(k)
    \/ \E t \in BagToSet(timers) : ProcessOrderComplete(t)
    \/ \E i \in LoopIDs : LoopExit(i)
    \/ \E c \in CookIDs : PoolRemoveCook(c)
    \/ \E k \in RemSlots : RemoveCookList(k)
    \/ \E k \in RemSlots : RemoveCookLoop(k)
    \/ \E k \in RemSlots : RemoveCookSetPending(k)
    \/ \E k \in RemSlots : RemoveCookUnassign(k)
    \/ \E k \in RemSlots : RemoveCookEnqueue(k)

FairStop ==
    /\ \A k \in AccSlots : /\ WF_vars(AcceptOrderDequeue(k))
                            /\ WF_vars(AcceptOrderAssign(k))
                            /\ WF_vars(AcceptOrderServe(k))
    /\ \A i \in 1..MaxLoops : SF_vars(i \in LoopIDs /\ LoopExit(i))

SpecStop == Init /\ [][NextStop]_vars /\ FairStop

\* ===================================================================
\* StartWorkerPool with its argument: the call is made with any number of
\* cooks while no polling goroutine is alive, and log keeps the line it
\* writes at line 299 (the numCooks it was given).  Cooks are removed and
\* reinstated, so the number of active cooks varies.
\* ===================================================================
\* the numbers of cooks StartWorkerPool is called with
PoolSizes == 1..(NumCooks + 1)

\* StartWorkerPool(ctx, numCooks), lines 298-305, called while no loop is alive
LoggedStartWorkerPoolBegin(numCooks) ==
    /\ \A i \in LoopIDs : ~Alive(i)
    /\ StartWorkerPoolList
    /\ log' = [call |-> "StartWorkerPool", id |-> numCooks, err |-> ErrNone]
    /\ UNCHANGED lockVars

NextStart ==
    \/ \E c \in {RegularCustomerID, VIPCustomerID} : PoolCreateOrder(c)
    \/ \E n \in PoolSizes : LoggedStartWorkerPoolBegin(n)
    \/ StartWorkerPoolStep
    \/ \E i \in LoopIDs : LoopTick(i)
    \/ \E k \in AccSlots : AcceptOrderDequeue(k)
    \/ \E k \in AccSlots : AcceptOrderAssign(k)
    \/ \E k \in AccSlots : AcceptOrderServe(k)
    \/ \E t \in BagToSet(timers) : ProcessOrderComplete(t)
    \/ \E i \in LoopIDs : LoopExit(i)
    \/ \E c \in CookIDs : PoolRemoveCook(c)
    \/ \E k \in RemSlots : RemoveCookList(k)
    \/ \E k \in RemSlots : RemoveCookLoop(k)
    \/ \E k \in RemSlots : RemoveCookSetPending(k)
    \/ \E k \in RemSlots : RemoveCookUnassign(k)
    \/ \E k \in RemSlots : RemoveCookEnqueue(k)
    \/ \E c \in CookIDs : ReinstateCook(c)

SpecStart == Init /\ [][NextStart]_vars

\* ===================================================================
\* The two mutexes.  Here taking a mutex is a step of its own: a call that
\* reaches Lock() waits until no call holds the mutex, then holds it, runs
\* the locked function and releases the mutex when the function returns
\* (defer Unlock).  workersMu is taken by startWorker and stopWorker, the
\* queue's mu by Enqueue, Dequeue, EnqueueAtFront and Size.
\* ===================================================================
\* the call of the named kind in the given slot (slot 0: the kind has one call)
Holder(unit, k) == [unit |-> unit, slot |-> k]

\* CreateOrder, line 106: Enqueue reaches pq.mu.Lock()
CreateOrderLockQueue ==
    /\ nextID <= MaxPoolOrders
    /\ mu = NoHolder
    /\ mu' = Holder("CreateOrder", 0)
    /\ UNCHANGED <<queueVars, storeVars, obsVars, users, acc, rem, timers, nAccept, nRemove,
                   bound, held, poolVars, log, workersMu>>

\* CreateOrder: the order is stored and enqueued, Enqueue returns (the store's
\* Create, which touches neither mutex, is taken together with the Enqueue)
LockedCreateOrder(customerID) ==
    /\ mu = Holder("CreateOrder", 0)
    /\ CreateOrderCall(customerID, TRUE)
    /\ mu' = NoHolder
    /\ UNCHANGED <<log, workersMu>>

\* AcceptOrder, line 245: Dequeue reaches pq.mu.Lock()
AcceptOrderLockQueue(k) ==
    /\ acc[k].pc = "dequeue"
    /\ mu = NoHolder
    /\ mu' = Holder("AcceptOrder", k)
    /\ UNCHANGED <<queueVars, storeVars, obsVars, users, acc, rem, timers, nAccept, nRemove,
                   bound, held, poolVars, log, workersMu>>

\* AcceptOrder, lines 245-251: Dequeue runs and returns
LockedAcceptOrderDequeue(k) ==
    /\ mu = Holder("AcceptOrder", k)
    /\ AcceptOrderTake(k)
    /\ mu' = NoHolder
    /\ UNCHANGED <<log, workersMu>>

\* AcceptOrder, lines 261-271: the log line at 265 calls Size(), which takes
\* the queue's mutex for reading, so the step waits for a call inside the queue
LockedAcceptOrderServe(k) ==
    /\ mu = NoHolder
    /\ AcceptOrderServe(k)

\* RemoveCook, lines 108-122: the cook checks
RemoveCookEnter(k, cookID) ==
    /\ FirstIdle(rem, k)
    /\ \A j \in RemSlots : rem[j].pc = "idle"
    /\ IF RemoveCheckError(cookID) = ErrNone
          THEN /\ nRemove < MaxRemoves
               /\ rem' = [rem EXCEPT ![k] = [pc |-> "stopWorker", cookID |-> cookID]]
               /\ nRemove' = nRemove + 1
          ELSE UNCHANGED <<rem, nRemove>>
    /\ UNCHANGED <<queueVars, storeVars, obsVars, users, acc, timers, nAccept, bound, held,
                   poolVars, log, lockVars>>

\* stopWorker, line 371: s.workersMu.Lock()
RemoveCookLockWorkers(k) ==
    /\ rem[k].pc = "stopWorker"
    /\ workersMu = NoHolder
    /\ workersMu' = Holder("RemoveCook", k)
    /\ UNCHANGED <<queueVars, storeVars, obsVars, users, acc, rem, timers, nAccept, nRemove,
                   bound, held, poolVars, log, mu>>

\* (mutant) a stopWorker that returns without unlocking workersMu
WorkersMuAfterStop_Kept == workersMu

\* stopWorker, line 372: defer s.workersMu.Unlock()
WorkersMuAfterStop == NoHolder

\* stopWorker, lines 374-379: the locked part, and the return
RemoveCookStopWorker(k) ==
    /\ rem[k].pc = "stopWorker"
    /\ workersMu = Holder("RemoveCook", k)
    /\ stopWorker(rem[k].cookID)
    /\ rem' = [rem EXCEPT ![k].pc = "list"]
    /\ workersMu' = WorkersMuAfterStop
    /\ UNCHANGED <<queueVars, storeVars, obsVars, users, acc, timers, nAccept, nRemove, bound,
                   held, poolStop, stopPc, wg, ctxDone, starting, log, mu>>

\* RemoveCook, line 150: EnqueueAtFront reaches pq.mu.Lock()
RemoveCookLockQueue(k) ==
    /\ rem[k].pc = "enqueue"
    /\ mu = NoHolder
    /\ mu' = Holder("RemoveCook", k)
    /\ UNCHANGED <<queueVars, storeVars, obsVars, users, acc, rem, timers, nAccept, nRemove,
                   bound, held, poolVars, log, workersMu>>

\* RemoveCook, lines 150-155: EnqueueAtFront runs and returns
LockedRemoveCookEnqueue(k) ==
    /\ mu = Holder("RemoveCook", k)
    /\ RemoveCookPush(k)
    /\ mu' = NoHolder
    /\ UNCHANGED <<log, workersMu>>

\* startWorker(cookID) can run within the bound on the goroutines started
StartWorkerFits(cookID) ==
    \/ workers[cookID].loop # Nil /\ workers[cookID].isRunning
    \/ Len(loops) < MaxLoops

\* startWorker, line 319: s.workersMu.Lock()
StartWorkerLock ==
    /\ starting # <<>>
    /\ StartWorkerFits(Head(starting))
    /\ workersMu = NoHolder
    /\ workersMu' = Holder("StartWorkerPool", 0)
    /\ UNCHANGED <<queueVars, storeVars, obsVars, users, acc, rem, timers, nAccept, nRemove,
                   bound, held, poolVars, log, mu>>

\* startWorker, lines 320-366: the locked part, and the return
LockedStartWorker ==
    /\ workersMu = Holder("StartWorkerPool", 0)
    /\ StartWorkerPoolStart
    /\ workersMu' = NoHolder
    /\ UNCHANGED <<log, mu>>

NextLocks ==
    \/ CreateOrderLockQueue
    \/ \E c \in {RegularCustomerID, VIPCustomerID} : LockedCreateOrder(c)
    \/ StartWorkerPoolBegin
    \/ StartWorkerLock
    \/ LockedStartWorker
    \/ \E i \in LoopIDs : LoopTick(i)
    \/ \E k \in AccSlots : AcceptOrderLockQueue(k)
    \/ \E k \in AccSlots : LockedAcceptOrderDequeue(k)
    \/ \E k \in AccSlots : AcceptOrderAssign(k)
    \/ \E k \in AccSlots : LockedAcceptOrderServe(k)
    \/ \E t \in BagToSet(timers) : ProcessOrderComplete(t)
    \/ \E i \in LoopIDs : LoopExit(i)
    \/ \E k \in RemSlots, c \in CookIDs : RemoveCookEnter(k, c)
    \/ \E k \in RemSlots : RemoveCookLockWorkers(k)
    \/ \E k \in RemSlots : RemoveCookStopWorker(k)
    \/ \E k \in RemSlots : RemoveCookList(k)
    \/ \E k \in RemSlots : RemoveCookLoop(k)
    \/ \E k \in RemSlots : RemoveCookSetPending(k)
    \/ \E k \in RemSlots : RemoveCookUnassign(k)
    \/ \E k \in RemSlots : RemoveCookLockQueue(k)
    \/ \E k \in RemSlots : LockedRemoveCookEnqueue(k)
    \/ StopWorkerPoolCall
    \/ StopWorkerPoolReturn

SpecLocks == Init /\ [][NextLocks]_vars

\* ===================================================================
\* RemoveCook with its error returns after the cook checks, beside a worker
\* pool: the stores are the database ones, whose GetByCookID and SoftDelete
\* return an error when the statement fails.  Each RemoveCook call runs
\* alone, so that what it leaves behind can be compared with what it found.
\* ===================================================================

\* RemoveCook, lines 128-132: GetByCookID fails; return the error
RemoveCookListFails(k) ==
    /\ rem[k].pc = "list"
    /\ rem' = [rem EXCEPT ![k] = IdleCall]
    /\ log' = [call |-> "RemoveCook", id |-> rem[k].cookID, err |-> "failed to get orders"]
    /\ UNCHANGED <<queueVars, storeVars, obsVars, users, acc, timers, nAccept, nRemove, bound,
                   held, poolVars, lockVars>>

\* RemoveCook, lines 160-163: SoftDelete fails after the loop; return the error
RemoveCookSoftDeleteFails(k) ==
    /\ rem[k].pc = "loop"
    /\ rem[k].orders = <<>>
    /\ rem' = [rem EXCEPT ![k] = IdleCall]
    /\ log' = [call |-> "RemoveCook", id |-> rem[k].cookID,
               err |-> "failed to soft delete cook"]
    /\ UNCHANGED <<queueVars, storeVars, obsVars, users, acc, timers, nAccept, nRemove, bound,
                   held, poolVars, lockVars>>

NextRemoveError ==
    \/ NoRemoveInProgress /\ \E c \in {RegularCustomerID, VIPCustomerID} : PoolCreateOrder(c)
    \/ NoRemoveInProgress /\ StartWorkerPoolBegin
    \/ NoRemoveInProgress /\ StartWorkerPoolStep
    \/ NoRemoveInProgress /\ \E i \in LoopIDs : LoopTick(i)
    \/ NoRemoveInProgress /\ \E k \in AccSlots : AcceptOrderDequeue(k)
    \/ NoRemoveInProgress /\ \E k \in AccSlots : AcceptOrderAssign(k)
    \/ NoRemoveInProgress /\ \E k \in AccSlots : AcceptOrderServe(k)
    \/ NoRemoveInProgress /\ \E t \in BagToSet(timers) : ProcessOrderComplete(t)
    \/ NoRemoveInProgress /\ \E i \in LoopIDs : LoopExit(i)
    \/ \E k \in RemSlots, c \in CookIDs : RemoveCookBeginAlone(k, c)
    \/ \E k \in RemSlots : RemoveCookList(k)
    \/ \E k \in RemSlots : RemoveCookListFails(k)
    \/ \E k \in RemSlots : RemoveCookLoop(k)
    \/ \E k \in RemSlots : RemoveCookSoftDeleteFails(k)
    \/ \E k \in RemSlots : RemoveCookSetPending(k)
    \/ \E k \in RemSlots : RemoveCookUnassign(k)
    \/ \E k \in RemSlots : RemoveCookEnqueue(k)

SpecRemoveError == Init /\ [][NextRemoveError]_vars

\* ===================================================================
\* Properties
\* ===================================================================
QueueContent == vipOrders \o regularOrders

\* no AcceptOrder or RemoveCook call is in the middle of its execution
Quiescent ==
    /\ \A k \in AccSlots : acc[k].pc = "idle"
    /\ \A k \in RemSlots : rem[k].pc = "idle"

\* the tier sequence an order belongs to
TierQueue(o) == IF IsVIPOrder(o) THEN vipOrders ELSE regularOrders

\* the orders waiting in the tier of o
WaitingWith(o) == Range(TierQueue(o))

HeadOfTier(o) == TierQueue(o) # <<>> /\ Head(TierQueue(o)) = o

\* no EnqueueAtFront succeeded strictly between the logical times a and b
NoFrontBetween(a, b) == \A t \in frontTimes : ~(a < t /\ t < b)

\* C1: whenever at least one VIP order is in the queue, Dequeue and Peek
\* return a VIP order; a Regular order is returned only when the VIP sequence
\* is empty.
C1_TierPriority ==
    op \in {"Dequeue", "Peek"} =>
       /\ preVip # <<>> => (err = ErrNone /\ ret # Nil /\ IsVIPOrder(ret))
       /\ (err = ErrNone /\ ret # Nil /\ ~IsVIPOrder(ret)) => preVip = <<>>

C1_Witness ==
    /\ op = "Dequeue"
    /\ preVip # <<>>
    /\ preReg # <<>>
    /\ IsVIPOrder(ret)
    /\ enqTime[Head(preReg)] < enqTime[ret]

\* C2: orders of one tier inserted by Enqueue with no EnqueueAtFront in
\* between leave by Dequeue in the order they were enqueued: when Dequeue
\* returns such an order, no order enqueued before it under that condition is
\* still waiting in its tier.
C2_FIFOWithinTier ==
    (op = "Dequeue" /\ err = ErrNone) =>
       \A y \in WaitingWith(ret) :
          (/\ enqHow[ret] = "Enqueue"
           /\ enqHow[y] = "Enqueue"
           /\ NoFrontBetween(enqTime[y], enqTime[ret])
           /\ NoFrontBetween(enqTime[ret], enqTime[y]))
             => enqTime[ret] < enqTime[y]

C2_Witness ==
    /\ op = "Dequeue"
    /\ err = ErrNone
    /\ enqHow[ret] = "Enqueue"
    /\ \E y \in WaitingWith(ret), z \in QOrderIDs :
          /\ enqHow[y] = "Enqueue"
          /\ enqHow[z] = "Enqueue"
          /\ IsVIPOrder(z) # IsVIPOrder(ret)
          /\ enqTime[ret] < enqTime[z]
          /\ enqTime[z] < enqTime[y]
          /\ frontTimes = {}

\* C3: an order inserted with EnqueueAtFront leaves before every order that
\* was in its tier when it was inserted and before every order added to the
\* tier afterwards with Enqueue (so an order returned while it still waits was
\* itself inserted at the front, later); the insertion keeps the orders
\* already present in their relative order.
C3_FrontInsertionPrecedence ==
    /\ (op = "Dequeue" /\ err = ErrNone) =>
          \A x \in WaitingWith(ret) :
             enqHow[x] = "EnqueueAtFront" =>
                (enqHow[ret] = "EnqueueAtFront" /\ enqTime[ret] > enqTime[x])
    /\ (op = "EnqueueAtFront" /\ err = ErrNone) =>
          /\ Tail(TierQueue(arg)) = (IF IsVIPOrder(arg) THEN preVip ELSE preReg)
          /\ IsVIPOrder(arg) => regularOrders = preReg
          /\ ~IsVIPOrder(arg) => vipOrders = preVip

C3_Witness ==
    /\ op = "Dequeue"
    /\ err = ErrNone
    /\ enqHow[ret] = "EnqueueAtFront"
    /\ \E y, z \in WaitingWith(ret) :
          /\ enqTime[y] < enqTime[ret]
          /\ enqTime[ret] < enqTime[z]
          /\ enqHow[z] = "Enqueue"

\* C4: when RemoveCook(W) runs alone and returns, every order W held in
\* SERVING is PENDING, has no assigned cook and is at the head of its tier.
C4_RequeuedAtHead ==
    [][\A k \in RemSlots :
          (rem[k].pc = "loop" /\ rem[k].orders = <<>> /\ rem'[k].pc = "idle") =>
             \A x \in held :
                /\ orders'[x].Status = OrderStatusPending
                /\ orders'[x].AssignedCookUser = Nil
                /\ HeadOfTier(x)']_vars

\* the orders an AcceptOrder call in progress has dequeued and not yet returned
InHand == {k \in AccSlots : acc[k].pc \in {"assign", "status"}}

\* C5: cooks calling AcceptOrder concurrently against a queue loaded with M
\* orders: no order is returned by two calls or held by two calls, and each of
\* the M orders is in the queue, in the hand of one call, or returned by one
\* successful call, so that exactly M calls succeed.
C5_NoDoubleAssignment ==
    /\ \A o \in DOMAIN orders : CopiesIn(o, bound) <= 1
    /\ \A j, k \in InHand : acc[j].order = acc[k].order => j = k
    /\ \A k \in InHand : ~BagIn(acc[k].order, bound)
    /\ \A k \in InHand : ~InQueue(acc[k].order)
    /\ BagCardinality(bound) + Cardinality(InHand) + Size = MaxPreload
    /\ (Size = 0 /\ InHand = {}) => BagToSet(bound) = PreloadIDs

C5_Witness ==
    /\ NoAcceptInProgress
    /\ Size = 0
    /\ BagToSet(bound) = PreloadIDs
    /\ nAccept > MaxPreload
    /\ \E s, t \in BagToSet(timers) : s.cookID # t.cookID

\* C6: once an order's status is COMPLETE it never changes again.
C6_CompleteIsTerminal ==
    [][\A o \in DOMAIN orders :
          orders[o].Status = OrderStatusComplete => orders'[o].Status = OrderStatusComplete]_vars

\* C7: an order's status becomes COMPLETE only from SERVING.
C7_CompleteOnlyFromServing ==
    [][\A o \in DOMAIN orders :
          (orders[o].Status # OrderStatusComplete /\ orders'[o].Status = OrderStatusComplete)
             => orders[o].Status = OrderStatusServing]_vars

C9_SizeConservation ==
    /\ Size = Len(vipOrders) + Len(regularOrders)
    /\ Size = nEnq - nDeq
    /\ Size >= 0

C9_Witness ==
    /\ op = "Dequeue"
    /\ err = ErrEmptyQueue
    /\ nDeq >= 2
    /\ frontTimes # {}

\* C10: no order ID occurs more than once across the two tier sequences.
C10_NoDuplicateEntries ==
    \A i, j \in 1..Len(QueueContent) : QueueContent[i] = QueueContent[j] => i = j

\* C11: every order in the queue has status PENDING; a COMPLETE order is never
\* in the queue.
C11_QueueHoldsOnlyPending ==
    \A i \in 1..Len(QueueContent) : orders[QueueContent[i]].Status = OrderStatusPending

\* C13: a cook has at most one order in SERVING.
C13_OneOrderPerCook ==
    \A c \in CookIDs : Cardinality(ServedBy(c)) <= 1

\* C17: while cook W is removed (RemoveCook(W) has returned and ReinstateCook(W)
\* has not been called), no step binds an order to W.
C17_RemovedCookGetsNoOrders ==
    [][\A c \in CookIDs :
          users[c].Deleted =>
             \A o \in DOMAIN orders :
                orders'[o].AssignedCookUser = c => orders[o].AssignedCookUser = c]_vars

\* the order Dequeue selects: the head of VIP if non-empty, else the head of regular
SelectedOrder == IF vipOrders # <<>> THEN Head(vipOrders) ELSE Head(regularOrders)

\* C18: a successful AcceptOrder(W) takes from the queue exactly the order
\* Dequeue selects, and when it returns that order, the order is SERVING with
\* assigned cook W, is not in the queue, and one completion timer has been
\* started for it.
C18_SuccessfulBinding ==
    [][\A k \in AccSlots :
          /\ (acc[k].pc = "dequeue" /\ acc'[k].pc = "assign") =>
                /\ acc'[k].order = SelectedOrder
                /\ vipOrders' = IF vipOrders # <<>> THEN Tail(vipOrders) ELSE vipOrders
                /\ regularOrders' = IF vipOrders # <<>> THEN regularOrders ELSE Tail(regularOrders)
          /\ (acc[k].pc = "status" /\ acc'[k].pc = "idle" /\ bound' # bound) =>
                LET o == acc[k].order
                    w == acc[k].cookID
                IN  /\ bound' = bound (+) SetToBag({o})
                    /\ orders'[o].Status = OrderStatusServing
                    /\ orders'[o].AssignedCookUser = w
                    /\ o \notin Range(vipOrders') \cup Range(regularOrders')
                    /\ timers' = timers (+) SetToBag({[orderID |-> o, cookID |-> w]})]_vars

\* C12: when AcceptOrder has dequeued an order and then returns an error
\* because the cook assignment or the status update failed, the order is at
\* the front of its tier when the call returns.
C12_CompensationOnFailedBinding ==
    [][\A k \in AccSlots, o \in DOMAIN orders :
          (/\ acc[k].pc \in {"assign", "status"}
           /\ acc[k].order = o
           /\ acc'[k].pc = "idle"
           /\ bound' = bound) =>
              /\ log'.call = "AcceptOrder"
              /\ log'.err # ErrNone
              /\ HeadOfTier(o)']_vars

\* C14: shutdown completeness.  At the step where StopWorkerPool returns, every
\* polling loop that was started has exited and none is inside AcceptOrder;
\* and a loop that has exited stays exited and never begins an AcceptOrder.
C14_ShutdownCompleteness ==
    [][/\ (stopPc = "wait" /\ stopPc' = "done") =>
             \A i \in LoopIDs : loops'[i].pc = "exited" /\ acc'[i].pc = "idle"
       /\ \A i \in LoopIDs :
             loops[i].pc = "exited" => loops'[i].pc = "exited" /\ acc'[i].pc = "idle"]_vars

\* StopWorkerPool has returned after two loops ran and one of them bound an order
C14_Witness ==
    /\ stopPc = "done"
    /\ Len(loops) = MaxLoops
    /\ \E o \in DOMAIN orders : orders[o].AssignedCookUser # Nil

\* the polling loops of a cook that have not returned
LiveLoops(c) == {i \in LoopIDs : loops[i].cookID = c /\ Alive(i)}

\* C16: at most one polling loop is alive for a given cook ID at any time.
C16_OneLoopPerCook == \A c \in CookIDs : Cardinality(LiveLoops(c)) <= 1

\* C15: shutdown terminates.  Under fair scheduling, once StopWorkerPool has
\* closed the pool's stop channel and waits, it eventually returns, and every
\* polling loop has then exited, whether it was at its select or inside an
\* AcceptOrder when the channel was closed.
C15_ShutdownTerminates ==
    (stopPc = "wait") ~> (stopPc = "done" /\ \A i \in LoopIDs : loops[i].pc = "exited")

\* StopWorkerPool waits while one loop is inside AcceptOrder with an order
\* taken and another loop is at its select
C15_Witness ==
    /\ stopPc = "wait"
    /\ \E i \in LoopIDs : loops[i].pc = "select" /\ acc[i].pc \in {"assign", "status"}
    /\ \E j \in LoopIDs : loops[j].pc = "select" /\ acc[j].pc = "idle"

\* the errors AcceptOrder returns before it has taken an order
AcceptPreconditionErrors ==
    {"cook not found", "user is not a cook", "cook is deleted", "no orders in queue"}

\* C19: AcceptOrder precondition failures change nothing.  A call passes the
\* cook checks only for a registered cook that is not removed, and goes on to
\* bind an order only if the queue was not empty; a call for an unknown or a
\* removed cook returns an error; and the step at which a call returns one of
\* the precondition errors dequeues nothing, changes no order and starts no timer.
C19_AcceptPreconditionFailures ==
    [][/\ \A k \in AccSlots :
             (acc[k].pc = "idle" /\ acc'[k].pc = "dequeue") =>
                 \E c \in CookIDs : acc'[k].cookID = c /\ ~users[c].Deleted
       /\ \A k \in AccSlots :
             (acc[k].pc = "dequeue" /\ acc'[k].pc = "assign") => QueueContent # <<>>
       /\ \A k \in AccSlots :
             (acc[k].pc = "dequeue" /\ acc'[k].pc = "idle") =>
                 /\ QueueContent = <<>>
                 /\ log'.err = "no orders in queue"
                 /\ UNCHANGED <<queueVars, storeVars, timers, bound>>
       /\ (log' # log /\ log'.call = "AcceptOrder") =>
             /\ (log'.id \notin DOMAIN users \/ users[log'.id].Deleted) =>
                    log'.err \in AcceptPreconditionErrors
             /\ log'.err \in AcceptPreconditionErrors =>
                    UNCHANGED <<queueVars, storeVars, timers, bound>>]_vars

\* AcceptOrder has just failed for a removed cook while an order waits in the queue
C19_Witness ==
    /\ log.call = "AcceptOrder"
    /\ log.err = "cook is deleted"
    /\ users[log.id].Deleted
    /\ QueueContent # <<>>

\* C20: lifecycle precondition failures change nothing.  RemoveCook passes its
\* checks only for a registered cook that is not removed, ReinstateCook only
\* for a registered cook that is removed; every other call returns an error,
\* and the step at which it does leaves the queue, the orders, the users'
\* deleted flags, the workers and the polling loops unchanged.
C20_LifecyclePreconditionFailures ==
    [][/\ \A k \in RemSlots :
             (rem[k].pc = "idle" /\ rem'[k].pc # "idle") =>
                 \E c \in CookIDs : rem'[k].cookID = c /\ ~users[c].Deleted
       /\ \A u \in UserIDs :
             (users[u].Deleted /\ ~users'[u].Deleted) =>
                 u \in CookIDs /\ log' = [call |-> "ReinstateCook", id |-> u, err |-> ErrNone]
       /\ (log' # log /\ log'.call = "RemoveCook") =>
             (log'.err = ErrNone <=>
                 (log'.id \in CookIDs /\ ~users[log'.id].Deleted))
       /\ (log' # log /\ log'.call = "ReinstateCook") =>
             (log'.err = ErrNone <=>
                 (log'.id \in CookIDs /\ users[log'.id].Deleted))
       /\ (log' # log /\ log'.call \in {"RemoveCook", "ReinstateCook"} /\ log'.err # ErrNone) =>
             UNCHANGED <<queueVars, storeVars, users, timers, workers, loops, wg, rem>>]_vars

\* RemoveCook has just failed for a cook that is already removed, while an
\* order waits in the queue and a polling loop of another cook is alive
C20_Witness ==
    /\ log = [call |-> "RemoveCook", id |-> log.id, err |-> "cook is already deleted"]
    /\ users[log.id].Deleted
    /\ QueueContent # <<>>
    /\ \E i \in LoopIDs : Alive(i) /\ ~loops[i].stopped

C22_AssignmentMatchesStatus ==
    Quiescent =>
       \A o \in DOMAIN orders :
          orders[o].AssignedCookUser # Nil <=> orders[o].Status = OrderStatusServing

\* C23: re-queued orders form an inner FIFO.  When Dequeue returns an order
\* that was inserted with EnqueueAtFront, no order of its tier that was
\* inserted with EnqueueAtFront before it is still waiting.
C23_RequeuedInnerFIFO ==
    (op = "Dequeue" /\ err = ErrNone /\ enqHow[ret] = "EnqueueAtFront") =>
       \A x \in WaitingWith(ret) :
          enqHow[x] = "EnqueueAtFront" => enqTime[ret] < enqTime[x]

\* C24: timer cancellation.  Once the context is cancelled no order becomes
\* COMPLETE, and the step at which a completion timer exits after the
\* cancellation leaves every order's status and assigned cook as they were.
C24_TimerCancellation ==
    [][ctxDone =>
          /\ \A o \in DOMAIN orders :
                orders'[o].Status = OrderStatusComplete => orders[o].Status = OrderStatusComplete
          /\ BagCardinality(timers') < BagCardinality(timers) => orders' = orders]_vars

\* the context was cancelled while an order was being served: its timer has
\* exited and the order is still SERVING and bound to its cook
C24_Witness ==
    /\ ctxDone
    /\ timers = EmptyBag
    /\ \E o \in DOMAIN orders :
          /\ orders[o].Status = OrderStatusServing
          /\ orders[o].AssignedCookUser # Nil
          /\ BagIn(o, bound)

\* every order is COMPLETE and the queue is empty
AllServed ==
    /\ QueueContent = <<>>
    /\ \A o \in DOMAIN orders : orders[o].Status = OrderStatusComplete

\* C25: progress.  With a polling loop running, no cook removed, no
\* cancellation and no store failure, under fair scheduling a state is
\* reached in which every order is COMPLETE and the queue is empty, and once
\* all the orders have been created it stays so.
C25_Progress ==
    /\ (loops # <<>>) ~> AllServed
    /\ (loops # <<>> /\ nextID > MaxOrders) ~> [](AllServed /\ timers = EmptyBag)

\* a pool has served orders of both tiers to completion
C25_Witness ==
    /\ loops # <<>>
    /\ AllServed
    /\ \E o, p \in DOMAIN orders : IsVIPOrder(o) /\ ~IsVIPOrder(p)
    /\ timers = EmptyBag

\* C26: Enqueue(nil) and EnqueueAtFront(nil) return ErrNilOrder and change
\* nothing: both tier sequences and the size are as before the call.
C26_NilOrderRejected ==
    (op \in {"Enqueue", "EnqueueAtFront"} /\ arg = Nil) =>
       /\ err = ErrNilOrder
       /\ vipOrders = preVip
       /\ regularOrders = preReg
       /\ size = preSize

\* EnqueueAtFront(nil) was called on a queue holding orders of both tiers
C26_Witness ==
    /\ op = "EnqueueAtFront"
    /\ arg = Nil
    /\ err = ErrNilOrder
    /\ preVip # <<>>
    /\ preReg # <<>>

\* C27: Dequeue and Peek return ErrEmptyQueue and no order exactly when both
\* tier sequences are empty, and such a call changes nothing; when a sequence
\* is not empty they succeed and return an order.
C27_EmptyQueueError ==
    op \in {"Dequeue", "Peek"} =>
       /\ err = ErrEmptyQueue <=> (preVip = <<>> /\ preReg = <<>>)
       /\ err = ErrEmptyQueue =>
             /\ ret = Nil
             /\ vipOrders = preVip
             /\ regularOrders = preReg
             /\ size = preSize
       /\ err # ErrEmptyQueue => (err = ErrNone /\ ret # Nil)

\* Peek failed on a queue that Dequeue calls had emptied
C27_Witness ==
    /\ op = "Peek"
    /\ err = ErrEmptyQueue
    /\ ret = Nil
    /\ nDeq >= 2

\* C28: Peek is read-only and agrees with Dequeue.  A Peek leaves both tier
\* sequences and the size unchanged and returns the order at the head of the
\* VIP sequence, or of the regular sequence when there is no VIP order; a Peek
\* that directly follows a Peek returns the same, and a Dequeue that directly
\* follows a Peek returns the order the Peek returned.
C28_PeekReadOnly ==
    [][/\ op' = "Peek" =>
             /\ UNCHANGED queueVars
             /\ ret' = (IF QueueContent = <<>> THEN Nil ELSE Head(QueueContent))
       /\ (op = "Peek" /\ op' \in {"Peek", "Dequeue"}) =>
             /\ ret' = ret
             /\ err' = (IF ret = Nil THEN ErrEmptyQueue ELSE ErrNone)
             /\ err = (IF ret = Nil THEN ErrEmptyQueue ELSE ErrNone)]_vars

\* Peek returned a regular order from a queue of several orders with no VIP order
C28_Witness ==
    /\ op = "Peek"
    /\ err = ErrNone
    /\ vipOrders = <<>>
    /\ Len(regularOrders) >= 2
    /\ ret = Head(regularOrders)
    /\ nDeq >= 1

\* C29: CreateOrder enqueues if and only if it succeeds.  The step that stores
\* a new order is a CreateOrder returning no error for an existing, not
\* deleted customer; the order is PENDING and unassigned, has the customer's
\* role, and is appended to the tail of the tier of that role while the other
\* tier is unchanged and the size grows by one.  A CreateOrder for an unknown
\* user, a deleted user or a cook, or with an invalid food list, returns an
\* error, and a CreateOrder returning an error stores nothing and leaves the
\* queue unchanged.
C29_CreateOrderEnqueues ==
    [][/\ nextID' # nextID =>
             /\ log'.call = "CreateOrder"
             /\ log'.err = ErrNone
             /\ \E c \in {RegularCustomerID, VIPCustomerID} :
                   /\ log'.id = c
                   /\ ~users[c].Deleted
                   /\ orders' = Append(orders, [Status |-> OrderStatusPending,
                                                AssignedCookUser |-> Nil,
                                                CustomerRole |-> users[c].Role])
                   /\ IF c = VIPCustomerID
                         THEN /\ vipOrders' = Append(vipOrders, nextID)
                              /\ regularOrders' = regularOrders
                         ELSE /\ regularOrders' = Append(regularOrders, nextID)
                              /\ vipOrders' = vipOrders
             /\ size' = size + 1
             /\ nextID' = nextID + 1
       /\ (log' # log /\ log'.call = "CreateOrder") =>
             /\ (\/ log'.id \notin DOMAIN users
                 \/ users[log'.id].Deleted
                 \/ users[log'.id].Role = RoleCook) => log'.err # ErrNone
             /\ log'.err # ErrNone => UNCHANGED <<queueVars, storeVars>>
             /\ log'.err = ErrNone => nextID' = nextID + 1]_vars

\* CreateOrder has just been rejected for a deleted customer while orders of
\* the other customer wait in the queue
C29_Witness ==
    /\ log.call = "CreateOrder"
    /\ log.err = "customer is deleted"
    /\ Len(QueueContent) >= 2

\* every order in the VIP sequence has the VIP role, every order in the
\* regular sequence has another role
TiersMatchRoles ==
    /\ \A i \in 1..Len(vipOrders) : IsVIPOrder(vipOrders[i])
    /\ \A i \in 1..Len(regularOrders) : ~IsVIPOrder(regularOrders[i])

\* C30: tier membership.  After every step each order in the VIP sequence has
\* customer role VIP and each order in the regular sequence has another role,
\* and no order's customer role changes, so that an order re-queued by
\* RemoveCook or by AcceptOrder's compensation is in the tier it was first
\* enqueued in.
C30_TierMembership ==
    [][/\ TiersMatchRoles'
       /\ \A o \in DOMAIN orders : orders'[o].CustomerRole = orders[o].CustomerRole]_vars

\* a VIP order that a cook had been serving is back in the VIP sequence after
\* RemoveCook, and AcceptOrder's compensation has just put an order back in
\* the regular sequence
C30_Witness ==
    /\ log.err = "failed to assign cook"
    /\ regularOrders # <<>>
    /\ \E o \in Range(vipOrders) : BagIn(o, bound)

\* the order is PENDING, unassigned and waiting in the queue
Requeued(o) ==
    /\ orders[o].Status = OrderStatusPending
    /\ orders[o].AssignedCookUser = Nil
    /\ InQueue(o)

\* C31: RemoveCook does not stop at a failing order.  Every order a RemoveCook
\* call inserts is at the head of its tier after the insertion, and when a
\* RemoveCook call that runs alone returns, the cook is marked removed and
\* every order the cook held in SERVING when the call began, other than those
\* at which UpdateStatus or UnassignCook failed, is PENDING, unassigned and in
\* the queue.
C31_RemoveCookContinuesAfterFailure ==
    [][\A k \in RemSlots :
          /\ (rem[k].pc = "enqueue" /\ rem'[k].pc = "loop") =>
                \E o \in {Head(rem[k].orders)} : Head(TierQueue(o))' = o
          /\ (rem[k].pc # "idle" /\ rem'[k].pc = "idle") =>
                /\ users'[rem[k].cookID].Deleted
                /\ \A o \in held' : Requeued(o)']_vars

\* a RemoveCook call has returned after UpdateStatus failed at one order of
\* the cook, which is still SERVING and assigned to the removed cook, and
\* another order of the cook is back in the queue
C31_Witness ==
    /\ NoRemoveInProgress
    /\ log.call = "RemoveCook"
    /\ log.err = "failed to update order status"
    /\ IsDeleted(log.id)
    /\ \E o \in held : InQueue(o)
    /\ \E o \in OrderIDs : /\ orders[o].Status = OrderStatusServing
                           /\ orders[o].AssignedCookUser = log.id

\* the stop channel of the worker of loop i has been closed (by stopWorker)
WorkerStopped(i) == i \in LoopIDs /\ loops[i].stopped

\* C32: a loop whose worker RemoveCook has stopped eventually exits, and the
\* AcceptOrder call the loop is in when its worker is stopped runs to its end:
\* the call returns before the loop exits, and an order the call has taken
\* from the queue becomes bound to the cook.
C32_StoppedLoopExits ==
    /\ \A i \in 1..MaxLoops :
          WorkerStopped(i) ~> (i \in LoopIDs /\ loops[i].pc = "exited" /\ acc[i].pc = "idle")
    /\ \A i \in 1..MaxLoops : \A o \in 1..MaxPoolOrders :
          (WorkerStopped(i) /\ acc[i].pc = "assign" /\ acc[i].order = o) ~> BagIn(o, bound)

\* RemoveCook has stopped the worker of a loop that is inside AcceptOrder
\* with an order it has taken from the queue
C32_Witness ==
    \E i \in LoopIDs : /\ loops[i].stopped
                       /\ Alive(i)
                       /\ acc[i].pc = "assign"

\* the polling goroutines that have not returned
AliveLoops == {i \in LoopIDs : Alive(i)}

\* as many loops are alive as the last StartWorkerPool call was asked for,
\* each for a distinct cook that is active
PoolAsAsked ==
    /\ Cardinality(AliveLoops) = log.id
    /\ \A i, j \in AliveLoops : loops[i].cookID = loops[j].cookID => i = j
    /\ \A i \in AliveLoops : ~IsDeleted(loops[i].cookID)

\* C33: StartWorkerPool(ctx, n) starts exactly n polling loops, one per cook.
\* At the step where a StartWorkerPool(ctx, n) call made while no loop was
\* alive returns, n loops are alive, each for a distinct active cook.
C33_StartsExactlyN ==
    [][(starting' = <<>> /\ (starting # <<>> \/ log' # log)) => PoolAsAsked']_vars

\* a call is in progress or waits for a mutex, for another step of its own,
\* or (StopWorkerPool) for the goroutines; a StartWorkerPool that the bound
\* on the goroutines stops is not counted
CallInProgress ==
    \/ \E k \in AccSlots : acc[k].pc # "idle"
    \/ \E k \in RemSlots : rem[k].pc # "idle"
    \/ starting # <<>> /\ StartWorkerFits(Head(starting))
    \/ stopPc = "wait"
    \/ workersMu # NoHolder
    \/ mu # NoHolder

\* C34: the lock domains are never nested and nothing deadlocks.  No call
\* holds workersMu and the queue's mutex at the same time, and in every state
\* with a call in progress (inside a function, waiting for a mutex, or
\* waiting in wg.Wait) some call can take a step.
C34_LocksNeverNested ==
    /\ workersMu # NoHolder => mu # workersMu
    /\ CallInProgress => ENABLED NextLocks

\* RemoveCook holds workersMu inside stopWorker while the AcceptOrder call of
\* a polling loop holds the queue's mutex, StartWorkerPool waits for workersMu
\* and StopWorkerPool waits for the goroutines
C34_Witness ==
    /\ workersMu.unit = "RemoveCook"
    /\ mu.unit = "AcceptOrder"
    /\ starting # <<>>
    /\ stopPc = "wait"

\* the order of timer t is SERVING and assigned to the cook of t
OwnBinding(t) ==
    /\ orders[t.orderID].Status = OrderStatusServing
    /\ orders[t.orderID].AssignedCookUser = t.cookID

\* C35: a completion timer acts only on its own binding.  A step in which the
\* processOrder goroutine of order X and cook W ends changes the order store
\* only if X is SERVING and assigned to W before the step.
C35_TimerActsOnOwnBinding ==
    [][\A t \in BagToSet(timers) :
          (timers' = timers (-) SetToBag({t}) /\ ~OwnBinding(t)) => orders' = orders]_vars

\* C36: concurrent removals of one cook.  Of the RemoveCook calls in progress
\* for one cook only one succeeds, so a call that returns success finds the
\* cook still active at its last step; and no RemoveCook call inserts an
\* order that is already waiting in the queue.
C36_ConcurrentRemovals ==
    [][\A k \in RemSlots :
          /\ (rem[k].pc = "loop" /\ rem[k].orders = <<>> /\ rem'[k].pc = "idle") =>
                ~IsDeleted(rem[k].cookID)
          /\ (rem[k].pc = "enqueue" /\ rem'[k].pc = "loop") =>
                ~InQueue(Head(rem[k].orders))]_vars

\* C37: the registry's liveness flag is accurate.  For every cook, isRunning
\* is true exactly when a polling loop of that cook is alive.
C37_IsRunningAccurate ==
    \A c \in CookIDs : workers[c].isRunning <=> LiveLoops(c) # {}

\* the cook's worker, if StartWorkerPool registered one, is running: its stop
\* channel is open and its flag is set
WorkerRunning(c) ==
    workers[c].loop # Nil => workers[c].isRunning /\ ~loops[workers[c].loop].stopped

\* C38: RemoveCook is all-or-nothing on error.  When a RemoveCook call that
\* passed the cook checks and ran alone returns without having marked the
\* cook removed (GetByCookID or SoftDelete failed), the cook's worker is
\* running, and every order the cook held in SERVING when the call began is
\* SERVING, assigned to the cook and not in the queue.
C38_RemoveCookAllOrNothing ==
    [][\A k \in RemSlots : rem[k].pc # "idle" =>
          \A c \in {rem[k].cookID} :
              (rem'[k].pc = "idle" /\ ~IsDeleted(c)') =>
                  /\ WorkerRunning(c)'
                  /\ \A o \in held' : /\ orders'[o].Status = OrderStatusServing
                                      /\ orders'[o].AssignedCookUser = c
                                      /\ ~InQueue(o)']_vars

\* C39: no polling loop for a removed cook.  A step that starts a polling
\* goroutine starts it for a cook that is active, and in a state with no call
\* in progress every live goroutine of a removed cook has been told to stop.
C39_NoLoopForRemovedCook ==
    /\ [][Len(loops') > Len(loops) => ~IsDeleted(loops'[Len(loops')].cookID)]_vars
    /\ [](Quiescent /\ starting = <<>> =>
             \A i \in AliveLoops : IsDeleted(loops[i].cookID) => loops[i].stopped)

\* C40: Dequeue then EnqueueAtFront is the identity.  When the call that
\* follows a successful Dequeue is EnqueueAtFront of the order the Dequeue
\* returned, both tier sequences and the size are afterwards what they were
\* before the Dequeue.
C40_DequeueEnqueueAtFrontIdentity ==
    [][(/\ op = "Dequeue"
        /\ err = ErrNone
        /\ op' = "EnqueueAtFront"
        /\ arg' = ret
        /\ err' = ErrNone) =>
            /\ vipOrders' = preVip
            /\ regularOrders' = preReg
            /\ size' = preSize]_vars

\* MaxQOrders orders of both tiers were waiting, the one Dequeue took has been
\* put back by EnqueueAtFront as the next change of the queue, and it is at
\* the head of its tier with another order behind it
C40_Witness ==
    /\ op = "EnqueueAtFront"
    /\ err = ErrNone
    /\ nDeq = 1
    /\ size = MaxQOrders
    /\ vipOrders # <<>>
    /\ regularOrders # <<>>
    /\ enqTime[arg] = Clock
    /\ \A o \in QOrderIDs \ {arg} : enqTime[o] < Clock - 1
    /\ Len(TierQueue(arg)) >= 2
    /\ Head(TierQueue(arg)) = arg

====
